---- MODULE Spec2Model ----
(***************************************************************************)
(* Model of PocketCM: the delivery client (services/api_client.py) and the *)
(* extraction funnel (services/extraction.py, models/schemas.py).          *)
(*                                                                         *)
(* A Python str is a string, Optional[str] is a record [some, text]; an    *)
(* f-string is the concatenation of its parts.                             *)
(***************************************************************************)
EXTENDS Integers, Sequences, FiniteSets, TLC

\* ------------------------------------------------------------------ bounds
MaxBatch == 2
MaxRetriesBound == 3

\* ------------------------------------------------------- program constants
DefaultMaxRetries == 3
DefaultRetryDelay == 1
SuccessStatusesOnly200 == {200}
SuccessStatuses == {200, 201, 202}

\* ------------------------------------------------------------------- texts
None == [some |-> FALSE, text |-> ""]
Str(t) == [some |-> TRUE, text |-> t]

\* str(x) inside an f-string: None prints as the word None
Fmt(o) == IF o.some THEN o.text ELSE "None"

ContainsText(t, sub) ==
  \E i \in 0..(Len(t) - Len(sub)) : SubSeq(t, i + 1, i + Len(sub)) = sub

Outcome(s, e) == [success |-> s, error |-> e]

\* --------------------------------------------------- the destination (env)
\* What one POST can come back with: an HTTP status with a body, or an
\* exception raised by session.post (timeout, transport error).
ErrorBody == "Internal Server Error"
Responses ==
  { [exc |-> "none", status |-> s] : s \in {200, 201, 202, 500} }
  \cup { [exc |-> "TimeoutError", status |-> 0],
         [exc |-> "ClientError", status |-> 0] }

\* str(e) of the exception session.post raised: asyncio.TimeoutError() has
\* no arguments, so its str is empty
StrOfExc(exc) ==
  IF exc = "TimeoutError" THEN "" ELSE "Cannot connect to host"

\* body shared by _send_single_record and _send_batch
PostOutcome(resp) ==
  IF resp.exc # "none" THEN Outcome(FALSE, Str(StrOfExc(resp.exc)))
  ELSE IF resp.status \in SuccessStatuses THEN Outcome(TRUE, None)
  ELSE Outcome(FALSE, Str("HTTP " \o ToString(resp.status) \o ": " \o ErrorBody))

\* test_connection's own status rule and messages
ProbeOutcome(resp) ==
  IF resp.exc # "none"
    THEN Outcome(FALSE, Str("Connection test error: " \o StrOfExc(resp.exc)))
  ELSE IF resp.status \in SuccessStatuses THEN Outcome(TRUE, None)
  ELSE Outcome(FALSE, Str("Connection test failed. Status: " \o ToString(resp.status)
                            \o ", Error: " \o ErrorBody))

\* range(self.max_retries + 1): "+1 for initial attempt"
TotalAttemptsNoInitial(R) == R
TotalAttempts(R) == R + 1

\* variant: the delay grows by retry_delay per retry instead of doubling
BackoffDelayLinear(retry_delay, att) == retry_delay * att

\* delay = retry_delay * 2 ** (attempt - 1)
BackoffDelay(retry_delay, att) == retry_delay * (2 ^ (att - 1))

\* f"Failed to sync data after {max_retries + 1} attempts. Last error: {last_error}"
FailedMessage(R, lastErr) ==
  "Failed to sync data after " \o ToString(TotalAttempts(R))
    \o " attempts. Last error: " \o Fmt(lastErr)

\* ================================================================ strings
At(s, i) == SubSeq(s, i, i)
UpperLetters == "ABCDEFGHIJKLMNOPQRSTUVWXYZ"
LowerLetters == "abcdefghijklmnopqrstuvwxyz"
Digits == "0123456789"

InStr(c, set) == \E i \in 1..Len(set) : At(set, i) = c
IndexIn(c, set) == CHOOSE i \in 1..Len(set) : At(set, i) = c
CharsOf(set) == {At(set, i) : i \in 1..Len(set)}
DigitSet == CharsOf(Digits)
UpperSet == CharsOf(UpperLetters)
AlphaSet == CharsOf(UpperLetters) \cup CharsOf(LowerLetters)
LowerMap == [c \in UpperSet |-> At(LowerLetters, IndexIn(c, UpperLetters))]
DigitMap == [c \in DigitSet |-> IndexIn(c, Digits) - 1]
IsDigit(c) == c \in DigitSet
IsAlpha(c) == c \in AlphaSet
IsSpace(c) == c \in {" ", "\t", "\n", "\r"}
AllChars(s, P(_)) == \A i \in 1..Len(s) : P(At(s, i))

LowerChar(c) == IF c \in UpperSet THEN LowerMap[c] ELSE c

\* str.lower()
RECURSIVE Lower(_)
Lower(s) == IF s = "" THEN "" ELSE LowerChar(Head(s)) \o Lower(Tail(s))

\* str.strip()
RECURSIVE LStrip(_)
LStrip(s) == IF s # "" /\ IsSpace(Head(s)) THEN LStrip(Tail(s)) ELSE s
RECURSIVE RStrip(_)
RStrip(s) ==
  IF s # "" /\ IsSpace(At(s, Len(s))) THEN RStrip(SubSeq(s, 1, Len(s) - 1)) ELSE s
Strip(s) == RStrip(LStrip(s))

\* the first position from p on at which `stops` holds of the character,
\* Len(s) + 1 if there is none
SpaceSet == {" ", "\t", "\n", "\r"}
FirstInside(s, p, class) ==
  CHOOSE q \in p..(Len(s) + 1) :
    /\ q > Len(s) \/ At(s, q) \in class
    /\ \A r \in p..(q - 1) : At(s, r) \notin class
FirstOutside(s, p, class) ==
  CHOOSE q \in p..(Len(s) + 1) :
    /\ q > Len(s) \/ At(s, q) \notin class
    /\ \A r \in p..(q - 1) : At(s, r) \in class

\* length of the longest run of characters of the class from position p
RunLength(s, p, class) == IF p > Len(s) THEN 0 ELSE FirstOutside(s, p, class) - p

\* str.split(): the words between runs of whitespace, one word at a time
RECURSIVE SplitWords(_, _)
WordFrom(s, start, end) ==
  <<SubSeq(s, start, end - 1)>> \o SplitWords(s, end)
SplitWords(s, p) ==
  IF p > Len(s) \/ FirstOutside(s, p, SpaceSet) > Len(s) THEN << >>
  ELSE WordFrom(s, FirstOutside(s, p, SpaceSet),
                FirstInside(s, FirstOutside(s, p, SpaceSet), SpaceSet))
Split(s) == SplitWords(s, 1)

\* ' '.join(words)
RECURSIVE JoinSpace(_)
JoinSpace(ws) ==
  IF ws = << >> THEN ""
  ELSE IF Len(ws) = 1 THEN ws[1]
  ELSE ws[1] \o " " \o JoinSpace(Tail(ws))

\* int(s) for a string of digits
RECURSIVE NumVal(_)
NumVal(s) ==
  IF s = "" THEN 0
  ELSE 10 * NumVal(SubSeq(s, 1, Len(s) - 1)) + DigitMap[At(s, Len(s))]

Pad2(n) == IF n < 10 THEN "0" \o ToString(n) ELSE ToString(n)

\* date.isoformat() / strftime('%Y-%m-%d') for four-digit years
IsoFormat(d) == ToString(d[1]) \o "-" \o Pad2(d[2]) \o "-" \o Pad2(d[3])

\* ============================================ models/schemas.py: validators
Tiers == {"Basic", "Pro", "Enterprise"}
RequiredFields == <<"customer_name", "email", "subscription_tier", "signup_date">>
NameMaxLength == 255
NameMinLength == 1

\* raw values as Python sees them: t is the type, s the text of a str (or
\* of an enum member), d the (year, month, day) of a date object
StrVal(x) == [t |-> "str", s |-> x, d |-> << >>]
NaN == [t |-> "float", s |-> "nan", d |-> << >>]
IntVal(x) == [t |-> "int", s |-> x, d |-> << >>]
NullVal == [t |-> "NoneType", s |-> "", d |-> << >>]
DateVal(x) == [t |-> "date", s |-> "", d |-> x]
TierVal(x) == [t |-> "SubscriptionTier", s |-> x, d |-> << >>]
\* the mapping without keys
EmptyObject == [k \in {} |-> NullVal]

Good(x) == [ok |-> TRUE, val |-> x, err |-> ""]
Bad(e) == [ok |-> FALSE, val |-> NullVal, err |-> e]

\* email_pattern, matched with re.match
EmailLocalChar(c) == IsAlpha(c) \/ IsDigit(c) \/ c \in {".", "_", "%", "+", "-"}
EmailDomainChar(c) == IsAlpha(c) \/ IsDigit(c) \/ c \in {".", "-"}
EmailTldMin == 2
EmailMatch(s) ==
  \E i \in 2..Len(s) : \E j \in (i + 2)..Len(s) :
     /\ At(s, i) = "@"
     /\ At(s, j) = "."
     /\ Len(s) - j >= EmailTldMin
     /\ AllChars(SubSeq(s, 1, i - 1), EmailLocalChar)
     /\ AllChars(SubSeq(s, i + 1, j - 1), EmailDomainChar)
     /\ AllChars(SubSeq(s, j + 1, Len(s)), IsAlpha)

\* the str type of a field, then validate_email
CheckedEmail(raw, email) ==
  IF ~EmailMatch(email) THEN Bad("Invalid email format: " \o raw)
  ELSE Good(StrVal(email))
ValidateEmail(v) ==
  IF v.t # "str" THEN Bad("Input should be a valid string")
  ELSE CheckedEmail(v.s, Lower(Strip(v.s)))

\* variant: the name is stripped but its inner whitespace is kept
ValidateNameStripOnly(v) ==
  IF v.t # "str" THEN Bad("Input should be a valid string")
  ELSE IF Len(v.s) < NameMinLength THEN Bad("String should have at least 1 character")
  ELSE IF Len(v.s) > NameMaxLength THEN Bad("String should have at most 255 characters")
  ELSE IF v.s = "" \/ Strip(v.s) = "" THEN Bad("Customer name cannot be empty")
  ELSE Good(StrVal(Strip(v.s)))

\* the str type and the length bounds of the field, then validate_name
ValidateName(v) ==
  IF v.t # "str" THEN Bad("Input should be a valid string")
  ELSE IF Len(v.s) < NameMinLength THEN Bad("String should have at least 1 character")
  ELSE IF Len(v.s) > NameMaxLength THEN Bad("String should have at most 255 characters")
  ELSE IF v.s = "" \/ Strip(v.s) = "" THEN Bad("Customer name cannot be empty")
  ELSE Good(StrVal(JoinSpace(Split(Strip(v.s)))))

\* tier_mapping
TierMapping(k) ==
  CASE k \in {"professional", "prem", "premium", "pro"} -> "Pro"
    [] k = "basic" -> "Basic"
    [] k \in {"enterprise", "corp", "corporate"} -> "Enterprise"
    [] OTHER -> "Basic"

\* variant: a value that is neither a tier nor a string is refused
NormalizeSubscriptionTierStrict(v) ==
  IF v.t = "SubscriptionTier" THEN Good(v)
  ELSE IF v.t = "str" THEN Good(TierVal(TierMapping(Lower(Strip(v.s)))))
  ELSE Bad("Input should be 'Basic', 'Pro' or 'Enterprise'")

\* normalize_subscription_tier: never fails
NormalizeSubscriptionTier(v) ==
  IF v.t = "SubscriptionTier" THEN Good(v)
  ELSE IF v.t = "str" THEN Good(TierVal(TierMapping(Lower(Strip(v.s)))))
  ELSE Good(TierVal("Basic"))

\* ---------------------------------------------------- datetime.strptime
MonthNames == <<"january", "february", "march", "april", "may", "june", "july",
                "august", "september", "october", "november", "december">>
MonthAbbrs == <<"jan", "feb", "mar", "apr", "may", "jun", "jul",
                "aug", "sep", "oct", "nov", "dec">>

\* date_formats, each as the sequence of its directives and literals
DateFormats == <<
  <<"%Y", "-", "%m", "-", "%d">>,
  <<"%m", "/", "%d", "/", "%Y">>,
  <<"%d", "/", "%m", "/", "%Y">>,
  <<"%B", " ", "%d", ",", " ", "%Y">>,
  <<"%b", " ", "%d", ",", " ", "%Y">>,
  <<"%d", " ", "%b", " ", "%Y">>,
  <<"%d", " ", "%b", " ", "%y">>,
  <<"%b", " ", "%d", " ", "%y">>,
  <<"%Y", "/", "%m", "/", "%d">>,
  <<"%d", "-", "%m", "-", "%Y">>,
  <<"%m", "-", "%d", "-", "%Y">>,
  <<"%Y", ".", "%m", ".", "%d">>,
  <<"%d", ".", "%m", ".", "%Y">> >>

IsDirective(e) == Len(e) = 2 /\ At(e, 1) = "%"

\* lengths a directive can consume, in the order the regex tries them
DirectiveLengths(e) ==
  CASE e = "%Y" -> <<4>>
    [] e = "%y" -> <<2>>
    [] e = "%m" -> <<2, 1>>
    [] e = "%d" -> <<2, 1>>
    [] e = "%B" -> <<9, 8, 7, 6, 5, 4, 3>>
    [] e = "%b" -> <<3>>

\* the regex of a directive, on a text of one of its lengths
DirectiveMatches(e, t) ==
  CASE e = "%Y" -> AllChars(t, IsDigit)
    [] e = "%y" -> AllChars(t, IsDigit)
    [] e = "%m" -> IF Len(t) = 2
                     THEN \/ At(t, 1) = "1" /\ InStr(At(t, 2), "012")
                          \/ At(t, 1) = "0" /\ InStr(At(t, 2), "123456789")
                     ELSE InStr(t, "123456789")
    [] e = "%d" -> IF Len(t) = 2
                     THEN \/ At(t, 1) = "3" /\ InStr(At(t, 2), "01")
                          \/ InStr(At(t, 1), "12") /\ IsDigit(At(t, 2))
                          \/ At(t, 1) = "0" /\ InStr(At(t, 2), "123456789")
                          \/ At(t, 1) = " " /\ InStr(At(t, 2), "123456789")
                     ELSE InStr(t, "123456789")
    [] e = "%B" -> \E i \in 1..12 : MonthNames[i] = Lower(t)
    [] e = "%b" -> \E i \in 1..12 : MonthAbbrs[i] = Lower(t)

\* variant: a two-digit year is always of the twentieth century
DirectiveValueNoPivot(e, t, acc) ==
  CASE e = "%Y" -> [acc EXCEPT ![1] = NumVal(t)]
    [] e = "%y" -> [acc EXCEPT ![1] = 1900 + NumVal(t)]
    [] e = "%m" -> [acc EXCEPT ![2] = NumVal(t)]
    [] e = "%d" -> [acc EXCEPT ![3] = NumVal(Strip(t))]
    [] e = "%B" -> [acc EXCEPT ![2] = CHOOSE i \in 1..12 : MonthNames[i] = Lower(t)]
    [] e = "%b" -> [acc EXCEPT ![2] = CHOOSE i \in 1..12 : MonthAbbrs[i] = Lower(t)]

\* the value a matched directive contributes to (year, month, day)
DirectiveValue(e, t, acc) ==
  CASE e = "%Y" -> [acc EXCEPT ![1] = NumVal(t)]
    [] e = "%y" -> [acc EXCEPT ![1] = IF NumVal(t) < 69 THEN 2000 + NumVal(t)
                                       ELSE 1900 + NumVal(t)]
    [] e = "%m" -> [acc EXCEPT ![2] = NumVal(t)]
    [] e = "%d" -> [acc EXCEPT ![3] = NumVal(Strip(t))]
    [] e = "%B" -> [acc EXCEPT ![2] = CHOOSE i \in 1..12 : MonthNames[i] = Lower(t)]
    [] e = "%b" -> [acc EXCEPT ![2] = CHOOSE i \in 1..12 : MonthAbbrs[i] = Lower(t)]

NoMatch == [ok |-> FALSE, rest |-> "", ymd |-> <<0, 0, 0>>]

RECURSIVE MatchFormat(_, _, _)
RECURSIVE TryLengths(_, _, _, _)

\* the compiled format matched at the start of s, with regex backtracking
MatchFormat(fmt, s, acc) ==
  IF fmt = << >> THEN [ok |-> TRUE, rest |-> s, ymd |-> acc]
  ELSE IF IsDirective(Head(fmt))
    THEN TryLengths(fmt, s, acc, DirectiveLengths(Head(fmt)))
  ELSE IF Head(fmt) = " "
    \* whitespace in a format matches \s+
    THEN IF s # "" /\ IsSpace(Head(s))
           THEN MatchFormat(Tail(fmt), LStrip(s), acc)
           ELSE NoMatch
  ELSE IF Len(s) >= Len(Head(fmt)) /\ SubSeq(s, 1, Len(Head(fmt))) = Head(fmt)
    THEN MatchFormat(Tail(fmt), SubSeq(s, Len(Head(fmt)) + 1, Len(s)), acc)
    ELSE NoMatch

\* the first alternative that succeeds
OrElse(r, alt) == IF r.ok THEN r ELSE alt

\* the directive at the head of fmt consuming the first n characters of s
MatchDirective(fmt, s, acc, n) ==
  IF Len(s) >= n /\ DirectiveMatches(Head(fmt), SubSeq(s, 1, n))
    THEN MatchFormat(Tail(fmt), SubSeq(s, n + 1, Len(s)),
                     DirectiveValue(Head(fmt), SubSeq(s, 1, n), acc))
    ELSE NoMatch

TryLengths(fmt, s, acc, lens) ==
  IF lens = << >> THEN NoMatch
  ELSE OrElse(MatchDirective(fmt, s, acc, Head(lens)),
              TryLengths(fmt, s, acc, Tail(lens)))

IsLeap(y) == (y % 4 = 0 /\ y % 100 # 0) \/ y % 400 = 0
DaysInMonth(y, m) ==
  IF m = 2 THEN (IF IsLeap(y) THEN 29 ELSE 28)
  ELSE IF m \in {4, 6, 9, 11} THEN 30 ELSE 31

\* datetime.strptime(v, fmt).date(); a ValueError is ok = FALSE
MatchedDate(r) ==
  IF ~r.ok THEN Bad("does not match format")
  ELSE IF r.rest # "" THEN Bad("unconverted data remains")
  ELSE IF r.ymd[1] < 1 \/ r.ymd[3] > DaysInMonth(r.ymd[1], r.ymd[2])
    THEN Bad("day is out of range for month")
  ELSE Good(DateVal(r.ymd))
Strptime(v, fmt) == MatchedDate(MatchFormat(fmt, v, <<1900, 1, 1>>))

\* variant: the last format that parses
RECURSIVE TryFormatsLastFirst(_, _)
TryFormatsLastFirst(v, fmts) ==
  IF fmts = << >> THEN Bad("no format")
  ELSE OrElse(TryFormatsLastFirst(v, Tail(fmts)), Strptime(v, Head(fmts)))

\* for fmt in date_formats: the first format that parses
RECURSIVE TryFormats(_, _)
TryFormats(v, fmts) ==
  IF fmts = << >> THEN Bad("no format")
  ELSE OrElse(Strptime(v, Head(fmts)), TryFormats(v, Tail(fmts)))

\* re.sub(r'(\d+)(st|nd|rd|th)', r'\1', v)
RECURSIVE StripOrdinals(_, _)
StripOrdinals(s, afterDigit) ==
  IF s = "" THEN ""
  ELSE IF afterDigit /\ Len(s) >= 2 /\ SubSeq(s, 1, 2) \in {"st", "nd", "rd", "th"}
    THEN StripOrdinals(SubSeq(s, 3, Len(s)), FALSE)
  ELSE Head(s) \o StripOrdinals(Tail(s), IsDigit(Head(s)))

\* parse_signup_date on the stripped text: the formats on the text as it
\* is, then on the text without ordinal suffixes
ParseDateText(x) ==
  OrElse(TryFormats(x, DateFormats),
         OrElse(TryFormats(StripOrdinals(x, FALSE), DateFormats),
                Bad("Unable to parse date: " \o x)))

\* parse_signup_date
ParseSignupDate(v) ==
  IF v.t = "date" THEN Good(v)
  ELSE IF v.t = "str" THEN ParseDateText(Strip(v.s))
  ELSE Bad("Unable to parse date")

\* repr of a list of field names, as in f'{missing_fields}'
RECURSIVE ListItems(_)
ListItems(fs) ==
  IF fs = << >> THEN ""
  ELSE IF Len(fs) = 1 THEN "'" \o fs[1] \o "'"
  ELSE "'" \o fs[1] \o "', " \o ListItems(Tail(fs))
ListRepr(fs) == "[" \o ListItems(fs) \o "]"

\* validate_model: required_fields that are not keys of the input
\* variant: a key is looked up whatever the case of its letters
IsMissingIgnoringCase(data, f) == ~\E k \in DOMAIN data : Lower(k) = Lower(f)
IsMissing(data, f) == f \notin DOMAIN data
\* variant: only the first absent field is reported
MissingFieldsFirstOnly(data) ==
  LET absent == {i \in 1..Len(RequiredFields) : IsMissing(data, RequiredFields[i])}
  IN IF absent = {} THEN << >>
     ELSE <<RequiredFields[CHOOSE i \in absent : \A j \in absent : i <= j]>>
MissingFields(data) ==
  LET R(i) == IsMissing(data, RequiredFields[i])
      RECURSIVE Collect(_)
      Collect(i) == IF i > Len(RequiredFields) THEN << >>
                    ELSE (IF R(i) THEN <<RequiredFields[i]>> ELSE << >>) \o Collect(i + 1)
  IN Collect(1)

NoRecord == [customer_name |-> "", email |-> "", subscription_tier |-> "",
             signup_date |-> << >>]
FieldError(loc, msg) == [loc |-> loc, msg |-> msg]

\* variant: validation stops at the first failing field
FirstFieldError(n, e, t, d) ==
  IF ~n.ok THEN <<FieldError("customer_name", n.err)>>
  ELSE IF ~e.ok THEN <<FieldError("email", e.err)>>
  ELSE IF ~t.ok THEN <<FieldError("subscription_tier", t.err)>>
  ELSE IF ~d.ok THEN <<FieldError("signup_date", d.err)>>
  ELSE << >>

\* CustomerRecord(**data): the model validator, then every field in
\* declaration order; the errors of all failing fields are collected
FieldErrors(n, e, t, d) ==
  (IF n.ok THEN << >> ELSE <<FieldError("customer_name", n.err)>>)
  \o (IF e.ok THEN << >> ELSE <<FieldError("email", e.err)>>)
  \o (IF t.ok THEN << >> ELSE <<FieldError("subscription_tier", t.err)>>)
  \o (IF d.ok THEN << >> ELSE <<FieldError("signup_date", d.err)>>)
ValidatedRecord(n, e, t, d, errs) ==
  IF errs # << >> THEN [ok |-> FALSE, rec |-> NoRecord, errors |-> errs]
  ELSE [ok |-> TRUE,
        rec |-> [customer_name |-> n.val.s, email |-> e.val.s,
                 subscription_tier |-> t.val.s, signup_date |-> d.val.d],
        errors |-> << >>]
ValidateFields(n, e, t, d) == ValidatedRecord(n, e, t, d, FieldErrors(n, e, t, d))
\* a field declared with `...` or without default: a mapping without its
\* key fails the field before any of its validators is called
Required(data, f, validated) ==
  IF f \in DOMAIN data THEN validated ELSE Bad("Field required")
CustomerRecord(data) ==
  IF MissingFields(data) # << >>
    THEN [ok |-> FALSE, rec |-> NoRecord,
          errors |-> <<FieldError("", "Missing required fields: "
                                        \o ListRepr(MissingFields(data)))>>]
  ELSE ValidateFields(
         Required(data, "customer_name", ValidateName(data["customer_name"])),
         Required(data, "email", ValidateEmail(data["email"])),
         Required(data, "subscription_tier",
                  NormalizeSubscriptionTier(data["subscription_tier"])),
         Required(data, "signup_date", ParseSignupDate(data["signup_date"])))

\* ======================================== services/extraction.py: helpers
\* the date pd.Timestamp.now() falls on
Today == <<2026, 11, 4>>

\* column_mapping, in the order of its items
ColumnMapping == <<
  [field |-> "customer_name",
   names |-> <<"name", "customer", "client_name", "customer_name", "fullname">>],
  [field |-> "email",
   names |-> <<"email", "email_address", "mail", "contact_email">>],
  [field |-> "subscription_tier",
   names |-> <<"tier", "subscription", "plan", "subscription_tier", "level">>],
  [field |-> "signup_date",
   names |-> <<"date", "signup_date", "join_date", "created", "registration_date">>] >>

\* col.lower() in [name.lower() for name in possible_names]
HeaderMatches(col, names) == \E i \in 1..Len(names) : Lower(col) = Lower(names[i])

\* for col in df.columns: ... break -- the first matching column, if any
MatchingColumns(columns, names) ==
  {i \in 1..Len(columns) : HeaderMatches(columns[i], names)}
FirstOf(S) == CHOOSE i \in S : \A j \in S : i <= j

\* actual_columns: field -> column name, for the fields that resolve
ResolveColumns(columns) ==
  LET resolved == {k \in 1..Len(ColumnMapping) :
                     MatchingColumns(columns, ColumnMapping[k].names) # {}}
      Entry(f) == CHOOSE k \in resolved : ColumnMapping[k].field = f
  IN [f \in {ColumnMapping[k].field : k \in resolved} |->
        columns[FirstOf(MatchingColumns(columns, ColumnMapping[Entry(f)].names))]]

\* variant: only the name column is required
HasNameColumnOnly(actual) == "customer_name" \in DOMAIN actual

\* "Check if we have minimum required columns"
HasRequiredColumns(actual) ==
  "customer_name" \in DOMAIN actual /\ "email" \in DOMAIN actual

\* customer_data of one row: resolved columns, defaults for tier and date
CustomerData(row, actual) ==
  LET present == {f \in {"customer_name", "email", "subscription_tier", "signup_date"} :
                    f \in DOMAIN actual \/ f \in {"subscription_tier", "signup_date"}}
  IN [f \in present |->
        IF f \in DOMAIN actual THEN row[actual[f]]
        ELSE IF f = "subscription_tier" THEN StrVal("Basic")
        ELSE StrVal(IsoFormat(Today))]

\* ------------------------------------- _extract_from_text_with_regex
LowerSet == CharsOf(LowerLetters)
UpperMap == [c \in LowerSet |-> At(UpperLetters, IndexIn(c, LowerLetters))]
UpperChar(c) == IF c \in LowerSet THEN UpperMap[c] ELSE c

\* str.title(): the first letter of every run of letters in upper case,
\* its other letters in lower case
TitleChar(s, i, inWord) ==
  IF (IF i = 1 THEN inWord ELSE IsAlpha(At(s, i - 1)))
    THEN LowerChar(At(s, i)) ELSE UpperChar(At(s, i))
RECURSIVE TitleRange(_, _, _, _)
TitleRange(s, lo, hi, inWord) ==
  IF lo > hi THEN ""
  ELSE IF lo = hi THEN TitleChar(s, lo, inWord)
  ELSE TitleRange(s, lo, (lo + hi) \div 2, inWord)
         \o TitleRange(s, (lo + hi) \div 2 + 1, hi, inWord)
Title(s, inWord) == TitleRange(s, 1, Len(s), inWord)

\* the character classes of email_pattern
TextLocalSet == AlphaSet \cup DigitSet \cup {".", "_", "%", "+", "-"}
TextDomainSet == AlphaSet \cup DigitSet \cup {".", "-"}
TextTldMin == 2

\* the dots of the domain run at which `\.[a-zA-Z]{2,}` matches
TldDots(s, d, drun) ==
  {j \in (d + 1)..(d + drun - 1) :
     At(s, j) = "." /\ RunLength(s, j + 1, AlphaSet) >= TextTldMin}
LastOf(S) == CHOOSE j \in S : \A k \in S : k <= j

\* the greedy domain part: the last such dot, then all letters after it
DomainEnd(s, dots) ==
  IF dots = {} THEN 0 ELSE LastOf(dots) + RunLength(s, LastOf(dots) + 1, AlphaSet)

\* the local part must run up to an "@"
LocalEnd(s, p, lrun) ==
  IF lrun >= 1 /\ p + lrun <= Len(s) /\ At(s, p + lrun) = "@"
    THEN DomainEnd(s, TldDots(s, p + lrun + 1,
                              RunLength(s, p + lrun + 1, TextDomainSet)))
    ELSE 0

\* where the match of email_pattern that starts at p ends, 0 if none does
EmailEnd(s, p) == LocalEnd(s, p, RunLength(s, p, TextLocalSet))

\* re.findall(email_pattern, text): the matches from left to right, each
\* search resuming where the previous match ended
RECURSIVE FindAll(_, _)
RECURSIVE NextMatch(_, _, _)
\* no match starts at p: none starts inside the run of local characters
\* from p either (they would need the same "@" and the same domain), so
\* the search resumes at the next local character after that run
Resume(s, p) ==
  FirstInside(s, p + (IF RunLength(s, p, TextLocalSet) = 0
                        THEN 1 ELSE RunLength(s, p, TextLocalSet)),
              TextLocalSet)
FindAll(s, p) == IF p > Len(s) THEN << >> ELSE NextMatch(s, p, EmailEnd(s, p))
NextMatch(s, p, e) ==
  IF e = 0 THEN FindAll(s, Resume(s, p)) ELSE <<SubSeq(s, p, e)>> \o FindAll(s, e + 1)

\* text.split('\n')
RECURSIVE SplitLines(_)
LineUpTo(s, nl) ==
  <<SubSeq(s, 1, nl - 1)>> \o SplitLines(SubSeq(s, nl + 1, Len(s)))
SplitLines(s) ==
  IF FirstInside(s, 1, {"\n"}) > Len(s) THEN <<s>>
  ELSE LineUpTo(s, FirstInside(s, 1, {"\n"}))

\* str.find: where sub first occurs in line, 0 if it does not
Occurrences(line, sub) ==
  {i \in 1..(Len(line) - Len(sub) + 1) : SubSeq(line, i, i + Len(sub) - 1) = sub}
Find(line, sub) ==
  IF Occurrences(line, sub) = {} THEN 0 ELSE FirstOf(Occurrences(line, sub))

\* the first line that contains the email, as a one-element sequence
RECURSIVE FirstLineWith(_, _)
FirstLineWith(lines, email) ==
  IF lines = << >> THEN << >>
  ELSE IF Find(Head(lines), email) > 0 THEN <<Head(lines)>>
  ELSE FirstLineWith(Tail(lines), email)

MaxNameWords == 3
DefaultName == "Unknown"

\* line.split(email)[0].strip(), and the name made of it
WordsBefore(line, email) == Strip(SubSeq(line, 1, Find(line, email) - 1))
NameOfWords(words_before) ==
  IF words_before # "" /\ Len(Split(words_before)) <= MaxNameWords
    THEN Title(words_before, FALSE)
    ELSE DefaultName
NameOnLine(found, email) ==
  IF found = << >> THEN DefaultName ELSE NameOfWords(WordsBefore(found[1], email))
NameFor(text, email) == NameOnLine(FirstLineWith(SplitLines(text), email), email)

\* customer_data of one matched email
TextCustomerData(text, email) ==
  [customer_name |-> StrVal(NameFor(text, email)), email |-> StrVal(email),
   subscription_tier |-> StrVal("Basic"), signup_date |-> StrVal(IsoFormat(Today))]

\* customers.append(CustomerRecord(**customer_data)), or the candidate is
\* dropped when the constructor raises
AppendedRecord(c) == IF c.ok THEN <<c.rec>> ELSE << >>
RECURSIVE TextRecords(_, _)
TextRecords(text, emails) ==
  IF emails = << >> THEN << >>
  ELSE AppendedRecord(CustomerRecord(TextCustomerData(text, Head(emails))))
         \o TextRecords(text, Tail(emails))

\* variant: an email found before is not taken again
RECURSIVE Distinct(_, _)
Distinct(emails, seen) ==
  IF emails = << >> THEN << >>
  ELSE (IF Head(emails) \in seen THEN << >> ELSE <<Head(emails)>>)
         \o Distinct(Tail(emails), seen \cup {Head(emails)})
ExtractFromTextWithRegexDistinct(text) ==
  TextRecords(text, Distinct(FindAll(text, 1), {}))

ExtractFromTextWithRegex(text) == TextRecords(text, FindAll(text, 1))

VARIABLES
  customers,     \* the batch handed to sync_customer_data (record ids)
  max_retries,   \* self.max_retries
  retry_delay,   \* self.retry_delay
  op,            \* which operation was called
  pc,            \* position inside the running coroutine
  attempt,       \* loop variable of _send_with_retry
  last_error,    \* local of _send_with_retry
  idx,           \* position of the per-record loop of _send_data
  cycleLog,      \* POSTs issued by the running send cycle
  cycleRet,      \* value the running _send_data returns
  nCycles,       \* send cycles (_send_data calls) that returned
  nFailed,       \* how many of them returned failure
  lastCycle,     \* what the latest send cycle returned
  firstSuccess,  \* POST and sleep counts when a send cycle first succeeded
  sleeps,        \* delays passed to asyncio.sleep, in order
  nPosts,        \* POSTs issued so far
  result         \* value returned to the caller

dvars == <<customers, max_retries, retry_delay, op, pc, attempt, last_error,
           idx, cycleLog, cycleRet, nCycles, nFailed, lastCycle, firstSuccess,
           sleeps, nPosts, result>>

VARIABLES
  file,            \* the uploaded document: extension and content
  epc,             \* position inside extract_data_from_file
  df,              \* the DataFrame the tabular decoder produced
  actual_columns,  \* field -> column name, as resolved by the mapper
  records_data,    \* the sequence of objects found in a JSON document
  rowIdx,          \* position of the row / element loop
  row_customers,   \* the list `customers` being accumulated
  rowLog,          \* per processed row: "ok" or "skipped"
  extraction,      \* how extract_data_from_file ended
  client,          \* self.client is set (an OpenAI key is configured)
  text_content,    \* the text read from a PDF / DOCX document
  ai_calls,        \* calls of self.client.chat.completions.create
  fallback         \* why the regex extractor was entered, "" if it was not

uvars == <<client, text_content, ai_calls, fallback>>
evars == <<file, epc, df, actual_columns, records_data, rowIdx, row_customers,
           rowLog, extraction, uvars>>

VARIABLES
  hpc,             \* position inside the upload handler
  response         \* what the upload handler answered

hvars == <<hpc, response>>

VARIABLES
  kwargs,          \* the mapping CustomerRecord is constructed from
  instance         \* the outcome of the construction

cvars == <<kwargs, instance>>

vars == <<dvars, evars, hvars, cvars>>

NoMark == [set |-> FALSE, posts |-> 0, sleeps |-> 0, cycles |-> 0]
NoRet == [set |-> FALSE, success |-> FALSE, error |-> None]
Ret(o) == [set |-> TRUE, success |-> o.success, error |-> o.error]


NoTable == [columns |-> << >>, rows |-> << >>]
NoColumns == [f \in {} |-> ""]
NoExtraction == [state |-> "none", records |-> << >>, error |-> "", kind |-> ""]
NoFile == [ext |-> "", shape |-> "none", headers |-> << >>, raws |-> << >>,
           decoder |-> "ok", pages |-> << >>]

\* what the upload handler answers: a FileUploadResponse, or the
\* HTTPException it raises
NoResponse == [kind |-> "none", status |-> 0, success |-> FALSE, message |-> "",
               processed_records |-> 0, errors |-> None]
FileUploadResponse(success, message, n, errors) ==
  [kind |-> "FileUploadResponse", status |-> 200, success |-> success,
   message |-> message, processed_records |-> n, errors |-> errors]
HttpException(status, error, detail) ==
  [kind |-> "HTTPException", status |-> status, success |-> FALSE,
   message |-> error, processed_records |-> 0, errors |-> Str(detail)]

\* no upload is being handled
HandlerIdle == hpc = "off" /\ response = NoResponse

\* no CustomerRecord is being constructed on its own
NoInstance == [ok |-> FALSE, rec |-> NoRecord, errors |-> << >>]
ConstructorIdle == kwargs = EmptyObject /\ instance = NoInstance

\* no document is being extracted
ExtractionIdle ==
  /\ file = NoFile
  /\ epc = "off"
  /\ df = NoTable
  /\ actual_columns = NoColumns
  /\ records_data = << >>
  /\ rowIdx = 0
  /\ row_customers = << >>
  /\ rowLog = << >>
  /\ extraction = NoExtraction
  /\ text_content = ""
  /\ ai_calls = 0
  /\ fallback = ""
  /\ client = FALSE

DInit ==
  /\ ExtractionIdle
  /\ HandlerIdle
  /\ ConstructorIdle
  /\ customers \in { [i \in 1..n |-> i] : n \in 0..MaxBatch }
  /\ max_retries \in 0..MaxRetriesBound
  /\ retry_delay \in {DefaultRetryDelay, 3}
  /\ op = "none"
  /\ pc = "idle"
  /\ attempt = 0
  /\ last_error = None
  /\ idx = 0
  /\ cycleLog = << >>
  /\ cycleRet = NoRet
  /\ nCycles = 0
  /\ nFailed = 0
  /\ lastCycle = NoRet
  /\ firstSuccess = NoMark
  /\ sleeps = << >>
  /\ nPosts = 0
  /\ result = NoRet

\* variant: the empty batch is not short-circuited
SyncCustomerDataNoEmptyCheck ==
  /\ pc = "idle"
  /\ op' = "sync_customer_data"
  /\ pc' = "retry_head"
  /\ attempt' = 0
  /\ last_error' = None
  /\ UNCHANGED <<evars, hvars, cvars>>
  /\ UNCHANGED <<customers, max_retries, retry_delay, idx, cycleLog, cycleRet,
                 nCycles, nFailed, lastCycle, firstSuccess, sleeps, nPosts, result>>

\* sync_customer_data up to the call of _send_with_retry
SyncCustomerData ==
  /\ pc = "idle"
  /\ op' = "sync_customer_data"
  /\ IF customers = << >>
       THEN /\ result' = Ret(Outcome(TRUE, None))
            /\ pc' = "done"
       ELSE /\ result' = result
            /\ pc' = "retry_head"
  /\ attempt' = 0
  /\ last_error' = None
  /\ UNCHANGED <<evars, hvars, cvars>>
  /\ UNCHANGED <<customers, max_retries, retry_delay, idx, cycleLog, cycleRet,
                 nCycles, nFailed, lastCycle, firstSuccess, sleeps, nPosts>>

\* one iteration head of `for attempt in range(max_retries + 1)`: the sleep
RetryIteration ==
  /\ pc = "retry_head"
  /\ attempt < TotalAttempts(max_retries)
  /\ sleeps' = IF attempt > 0
                 THEN Append(sleeps, BackoffDelay(retry_delay, attempt))
                 ELSE sleeps
  /\ pc' = "send_data"
  /\ UNCHANGED <<evars, hvars, cvars>>
  /\ UNCHANGED <<customers, max_retries, retry_delay, op, attempt, last_error,
                 idx, cycleLog, cycleRet, nCycles, nFailed, lastCycle, firstSuccess, nPosts, result>>

\* the loop is exhausted: "All retries failed"
RetriesExhausted ==
  /\ pc = "retry_head"
  /\ attempt >= TotalAttempts(max_retries)
  /\ result' = Ret(Outcome(FALSE, Str(FailedMessage(max_retries, last_error))))
  /\ pc' = "done"
  /\ UNCHANGED <<evars, hvars, cvars>>
  /\ UNCHANGED <<customers, max_retries, retry_delay, op, attempt, last_error,
                 idx, cycleLog, cycleRet, nCycles, nFailed, lastCycle, firstSuccess, sleeps, nPosts>>

\* _send_data: session and headers are set up, the branch is chosen
SendDataEnter ==
  /\ pc = "send_data"
  /\ cycleLog' = << >>
  /\ idx' = 1
  /\ IF Len(customers) = 1
       THEN pc' = "single" /\ cycleRet' = NoRet
       ELSE IF Len(customers) = 0
       \* the for loop has nothing to send and batch_success stays True
       THEN pc' = "after_send" /\ cycleRet' = Ret(Outcome(TRUE, None))
       ELSE pc' = "multi" /\ cycleRet' = NoRet
  /\ UNCHANGED <<evars, hvars, cvars>>
  /\ UNCHANGED <<customers, max_retries, retry_delay, op, attempt, last_error,
                 nCycles, nFailed, lastCycle, firstSuccess, sleeps, nPosts, result>>

PostEntry(kind, payload, resp) ==
  [kind |-> kind, payload |-> payload, resp |-> resp, attempt |-> attempt + 1]

\* variant: a failed single-record POST ends the cycle, no batch fallback
SendSingleBranchNoFallback ==
  /\ pc = "single"
  /\ \E resp \in Responses :
       /\ cycleLog' = Append(cycleLog, PostEntry("individual", <<customers[1]>>, resp))
       /\ nPosts' = nPosts + 1
       /\ cycleRet' = Ret(PostOutcome(resp))
       /\ pc' = "after_send"
  /\ UNCHANGED <<evars, hvars, cvars>>
  /\ UNCHANGED <<customers, max_retries, retry_delay, op, attempt, last_error,
                 idx, nCycles, nFailed, lastCycle, firstSuccess, sleeps, result>>

\* len(json_data) == 1: one individual POST, success returns, else falls
\* through to the batch fallback
SendSingleBranch ==
  /\ pc = "single"
  /\ \E resp \in Responses :
       LET o == PostOutcome(resp) IN
       /\ cycleLog' = Append(cycleLog, PostEntry("individual", <<customers[1]>>, resp))
       /\ nPosts' = nPosts + 1
       /\ IF o.success
            THEN /\ cycleRet' = Ret(Outcome(TRUE, None))
                 /\ pc' = "after_send"
            ELSE /\ cycleRet' = cycleRet
                 /\ pc' = "batch"
  /\ UNCHANGED <<evars, hvars, cvars>>
  /\ UNCHANGED <<customers, max_retries, retry_delay, op, attempt, last_error,
                 idx, nCycles, nFailed, lastCycle, firstSuccess, sleeps, result>>

\* variant: the per-record loop goes through the batch from its end
SendMultiBranchReversed ==
  /\ pc = "multi"
  /\ idx <= Len(customers)
  /\ \E resp \in Responses :
       LET o == PostOutcome(resp) IN
       /\ cycleLog' = Append(cycleLog,
                            PostEntry("individual",
                                      <<customers[Len(customers) + 1 - idx]>>, resp))
       /\ nPosts' = nPosts + 1
       /\ IF ~o.success
            THEN /\ pc' = "batch"
                 /\ idx' = idx
                 /\ cycleRet' = cycleRet
            ELSE IF idx = Len(customers)
            THEN /\ pc' = "after_send"
                 /\ idx' = idx
                 /\ cycleRet' = Ret(Outcome(TRUE, None))
            ELSE /\ pc' = "multi"
                 /\ idx' = idx + 1
                 /\ cycleRet' = cycleRet
  /\ UNCHANGED <<evars, hvars, cvars>>
  /\ UNCHANGED <<customers, max_retries, retry_delay, op, attempt, last_error,
                 nCycles, nFailed, lastCycle, firstSuccess, sleeps, result>>

\* variant: the per-record loop lacks its break
SendMultiBranchNoBreak ==
  /\ pc = "multi"
  /\ idx <= Len(customers)
  /\ \E resp \in Responses :
       LET o == PostOutcome(resp) IN
       /\ cycleLog' = Append(cycleLog, PostEntry("individual", <<customers[idx]>>, resp))
       /\ nPosts' = nPosts + 1
       /\ cycleRet' = IF o.success /\ idx = Len(customers)
                        THEN Ret(Outcome(TRUE, None)) ELSE cycleRet
       /\ pc' = IF idx < Len(customers) THEN "multi"
                ELSE IF o.success THEN "after_send" ELSE "batch"
       /\ idx' = IF idx < Len(customers) THEN idx + 1 ELSE idx
  /\ UNCHANGED <<evars, hvars, cvars>>
  /\ UNCHANGED <<customers, max_retries, retry_delay, op, attempt, last_error,
                 nCycles, nFailed, lastCycle, firstSuccess, sleeps, result>>

\* one iteration of `for record_json in json_data`
SendMultiBranch ==
  /\ pc = "multi"
  /\ idx <= Len(customers)
  /\ \E resp \in Responses :
       LET o == PostOutcome(resp) IN
       /\ cycleLog' = Append(cycleLog, PostEntry("individual", <<customers[idx]>>, resp))
       /\ nPosts' = nPosts + 1
       /\ IF ~o.success
            THEN /\ pc' = "batch"
                 /\ idx' = idx
                 /\ cycleRet' = cycleRet
            ELSE IF idx = Len(customers)
            THEN /\ pc' = "after_send"
                 /\ idx' = idx
                 /\ cycleRet' = Ret(Outcome(TRUE, None))
            ELSE /\ pc' = "multi"
                 /\ idx' = idx + 1
                 /\ cycleRet' = cycleRet
  /\ UNCHANGED <<evars, hvars, cvars>>
  /\ UNCHANGED <<customers, max_retries, retry_delay, op, attempt, last_error,
                 nCycles, nFailed, lastCycle, firstSuccess, sleeps, result>>

\* variant: the aggregate carries only the records not yet accepted
SendBatchUnsentOnly ==
  /\ pc = "batch"
  /\ \E resp \in Responses :
       /\ cycleLog' = Append(cycleLog,
                            PostEntry("aggregate",
                                      SubSeq(customers, idx, Len(customers)), resp))
       /\ nPosts' = nPosts + 1
       /\ cycleRet' = Ret(PostOutcome(resp))
  /\ pc' = "after_send"
  /\ UNCHANGED <<evars, hvars, cvars>>
  /\ UNCHANGED <<customers, max_retries, retry_delay, op, attempt, last_error,
                 idx, nCycles, nFailed, lastCycle, firstSuccess, sleeps, result>>

\* "Fallback: send as batch": _send_batch, whose result _send_data returns
SendBatch ==
  /\ pc = "batch"
  /\ \E resp \in Responses :
       /\ cycleLog' = Append(cycleLog, PostEntry("aggregate", customers, resp))
       /\ nPosts' = nPosts + 1
       /\ cycleRet' = Ret(PostOutcome(resp))
  /\ pc' = "after_send"
  /\ UNCHANGED <<evars, hvars, cvars>>
  /\ UNCHANGED <<customers, max_retries, retry_delay, op, attempt, last_error,
                 idx, nCycles, nFailed, lastCycle, firstSuccess, sleeps, result>>

\* `if success: return True, None` in the retry loop
LoopIgnoresSuccess(success) == FALSE
LoopReturns(success) == success

\* back in _send_with_retry: `if success: return True, None`, else next
\* attempt.  _send_data catches every Exception itself, so the except
\* branch that would set last_error is never entered.
AfterSendData ==
  /\ pc = "after_send"
  /\ nCycles' = nCycles + 1
  /\ nFailed' = IF cycleRet.success THEN nFailed ELSE nFailed + 1
  /\ lastCycle' = cycleRet
  /\ firstSuccess' = IF cycleRet.success /\ ~firstSuccess.set
                       THEN [set |-> TRUE, posts |-> nPosts, sleeps |-> Len(sleeps),
                             cycles |-> nCycles + 1]
                       ELSE firstSuccess
  /\ IF LoopReturns(cycleRet.success)
       THEN /\ result' = Ret(Outcome(TRUE, None))
            /\ pc' = "done"
            /\ attempt' = attempt
       ELSE /\ result' = result
            /\ pc' = "retry_head"
            /\ attempt' = attempt + 1
  /\ UNCHANGED <<evars, hvars, cvars>>
  /\ UNCHANGED <<customers, max_retries, retry_delay, op, last_error,
                 idx, cycleLog, cycleRet, sleeps, nPosts>>

\* test_connection: one POST of the diagnostic payload
TestConnection ==
  /\ pc = "idle"
  /\ op' = "test_connection"
  /\ \E resp \in Responses :
       /\ cycleLog' = Append(cycleLog, PostEntry("probe", << >>, resp))
       /\ nPosts' = nPosts + 1
       /\ result' = Ret(ProbeOutcome(resp))
  /\ pc' = "done"
  /\ UNCHANGED <<evars, hvars, cvars>>
  /\ UNCHANGED <<customers, max_retries, retry_delay, attempt, last_error,
                 idx, cycleRet, nCycles, nFailed, lastCycle, firstSuccess, sleeps>>

DNext ==
  \/ SyncCustomerData
  \/ RetryIteration
  \/ RetriesExhausted
  \/ SendDataEnter
  \/ SendSingleBranch
  \/ SendMultiBranch
  \/ SendBatch
  \/ AfterSendData
  \/ TestConnection

Spec == DInit /\ [][DNext]_vars

\* ============================================= services/extraction.py
MaxRows == 2

\* raw records the documents are made of
ValidJohn ==
  [customer_name |-> StrVal("John Doe"), email |-> StrVal("john@example.com"),
   subscription_tier |-> StrVal("Professional"), signup_date |-> StrVal("2024-01-15")]
ValidJane ==
  [customer_name |-> StrVal("  Jane   Smith "), email |-> StrVal("JANE@Company.COM"),
   subscription_tier |-> StrVal("gold"), signup_date |-> StrVal("01/20/2024")]
NoEmailBob ==
  [customer_name |-> StrVal("Bob Wilson"),
   subscription_tier |-> StrVal("Basic"), signup_date |-> StrVal("2024-01-05")]
BadEmailAnn ==
  [customer_name |-> StrVal("Ann Lee"), email |-> StrVal("ann@example"),
   subscription_tier |-> StrVal("Pro"), signup_date |-> StrVal("2024-02-01")]
BlankNameRow ==
  [customer_name |-> StrVal("   "), email |-> StrVal("x@startup.io"),
   subscription_tier |-> StrVal("Enterprise"), signup_date |-> StrVal("2024-03-01")]
BadDateTom ==
  [customer_name |-> StrVal("Tom Ray"), email |-> StrVal("tom@startup.io"),
   subscription_tier |-> StrVal("corp"), signup_date |-> StrVal("Jan 5th 2024")]

RawSamples == {ValidJohn, ValidJane, NoEmailBob, BadEmailAnn, BlankNameRow, BadDateTom}
RawSeqs == UNION { [1..n -> RawSamples] : n \in 0..MaxRows }

\* header rows of the tables: the column name and the raw field under it
Col(name, field) == [name |-> name, field |-> field]
HeaderRows == {
  <<Col("customer_name", "customer_name"), Col("email", "email"),
    Col("subscription_tier", "subscription_tier"), Col("signup_date", "signup_date")>>,
  <<Col("Name", "customer_name"), Col("Email", "email"),
    Col("Plan", "subscription_tier"), Col("Join Date", "signup_date")>>,
  <<Col("FullName", "customer_name"), Col("MAIL", "email")>>,
  <<Col("Client", "customer_name"), Col("Email", "email"),
    Col("Level", "subscription_tier")>>,
  <<Col("Customer", "customer_name"), Col("E-mail", "email"),
    Col("Tier", "subscription_tier")>> }

\* the header row of the canonical field names
HeaderRows_Canonical ==
  <<Col("customer_name", "customer_name"), Col("email", "email"),
    Col("subscription_tier", "subscription_tier"), Col("signup_date", "signup_date")>>
UploadRows == {<< >>, <<BadEmailAnn>>, <<ValidJohn>>, <<ValidJohn, ValidJane>>,
               <<BadEmailAnn, ValidJohn>>}

JsonShapes == {"list", "customers", "data", "single"}

\* decoded documents of other shapes: 42, [1], {"customers": "ab"},
\* {"customers": ""}, {"data": 5}, {"data": null},
\* {"customers": {"customer_name": ..., ...}}, {"customers": {}}
OtherJsonShapes == {"scalar", "list_of_scalars", "customers_text",
                    "customers_empty_text", "data_number", "data_null",
                    "customers_object", "customers_empty_object"}

\* a document: its extension, what its decoder finds in it (shape,
\* headers, raws, pages) and whether the decoder fails on it
Document(ext, shape, headers, raws) ==
  [ext |-> ext, shape |-> shape, headers |-> headers, raws |-> raws,
   decoder |-> "ok", pages |-> << >>]
Malformed(ext) ==
  [ext |-> ext, shape |-> "malformed", headers |-> << >>, raws |-> << >>,
   decoder |-> "open_fails", pages |-> << >>]

StructuredFiles ==
  { Document(".json", sh, << >>, rs) : sh \in JsonShapes \ {"single"}, rs \in RawSeqs }
  \cup { Document(".json", "single", << >>, <<r>>) : r \in RawSamples }
  \cup { Document(".json", sh, << >>, << >>) : sh \in OtherJsonShapes \ {"customers_object"} }
  \cup { Document(".json", "customers_object", << >>, <<ValidJohn>>) }
  \cup { Document(e, "table", h, rs) :
            e \in {".csv", ".xlsx"}, h \in HeaderRows, rs \in RawSeqs }
  \cup { Malformed(e) : e \in {".csv", ".xlsx", ".json"} }
  \cup { Document(".txt", "none", << >>, << >>) }

\* PDF and DOCX documents: the text of each page / paragraph, and whether
\* the decoder opens the document and reads every page
MaxPages == 2
PageSamples == {"", "  ", "John Doe john@example.com", "No contact here",
                "Ann Lee ann@x.io\nbob@startup.io"}
PageSeqs == UNION { [1..n -> PageSamples] : n \in 0..MaxPages }
Unstructured(ext, decoder, pages) ==
  [ext |-> ext, shape |-> "text", headers |-> << >>, raws |-> << >>,
   decoder |-> decoder, pages |-> pages]
UnstructuredFiles ==
  { Unstructured(e, d, ps) :
      e \in {".pdf", ".docx"}, d \in {"ok", "open_fails"}, ps \in PageSeqs }
  \cup { Unstructured(".pdf", "page_fails", ps) : ps \in PageSeqs \ {<< >>} }

Files == StructuredFiles \cup UnstructuredFiles

\* the pages the decoder delivers before it fails, if it does
PagesRead(f) ==
  CASE f.decoder = "ok" -> f.pages
    [] f.decoder = "open_fails" -> << >>
    [] f.decoder = "page_fails" -> SubSeq(f.pages, 1, Len(f.pages) - 1)

\* text_content as the page / paragraph loop accumulates it: a PDF page
\* without text adds nothing, every DOCX paragraph adds its text and "\n"
RECURSIVE Accumulate(_, _)
Accumulate(ext, pages) ==
  IF pages = << >> THEN ""
  ELSE (IF ext = ".pdf" /\ Head(pages) = "" THEN "" ELSE Head(pages) \o "\n")
         \o Accumulate(ext, Tail(pages))
DecodedText(f) == Accumulate(f.ext, PagesRead(f))

\* what the AI call gives: a list of validated records, or an exception
AiAnswer(ok, rs) == [ok |-> ok, customers |-> rs]
AiAnswers == {AiAnswer(TRUE, << >>), AiAnswer(TRUE, <<CustomerRecord(ValidJohn).rec>>),
              AiAnswer(FALSE, << >>)}

\* pd.read_csv / pd.read_excel: the columns, and per row the cell under
\* each column; an empty cell is NaN
ReadTable(f) ==
  LET cols == [i \in 1..Len(f.headers) |-> f.headers[i].name]
      FieldOf(c) == (CHOOSE i \in 1..Len(f.headers) : f.headers[i].name = c)
      Cell(r, c) == LET fld == f.headers[FieldOf(c)].field
                    IN IF fld \in DOMAIN r THEN r[fld] ELSE NaN
  IN [columns |-> cols,
      rows |-> [i \in 1..Len(f.raws) |->
                  [c \in {cols[k] : k \in 1..Len(cols)} |-> Cell(f.raws[i], c)]]]

\* decoded JSON values below the top level: an object with its fields, a
\* list with its items, a scalar with its text
Obj(r) == [type |-> "dict", obj |-> r, items |-> << >>, s |-> ""]
Lst(xs) == [type |-> "list", obj |-> EmptyObject, items |-> xs, s |-> ""]
Scalar(t, x) == [type |-> t, obj |-> EmptyObject, items |-> << >>, s |-> x]
Objs(rs) == [i \in 1..Len(rs) |-> Obj(rs[i])]
NoMembers == [k \in {} |-> Scalar("NoneType", "")]

\* the decoded tree: its type, the items of a list, and of a dict the
\* values under "customers" / "data" (members) and its own fields (self)
Tree(type, items, members, self) ==
  [type |-> type, items |-> items, members |-> members, self |-> self]

\* json.loads: the decoded tree
JsonLoads(f) ==
  CASE f.shape = "list" -> Tree("list", Objs(f.raws), NoMembers, EmptyObject)
    [] f.shape \in {"customers", "data"} ->
         Tree("dict", << >>, [k \in {f.shape} |-> Lst(Objs(f.raws))], EmptyObject)
    [] f.shape = "single" -> Tree("dict", << >>, NoMembers, f.raws[1])
    [] f.shape = "scalar" -> Tree("int", << >>, NoMembers, EmptyObject)
    [] f.shape = "list_of_scalars" ->
         Tree("list", <<Scalar("int", "1")>>, NoMembers, EmptyObject)
    [] f.shape = "customers_text" ->
         Tree("dict", << >>, [k \in {"customers"} |-> Scalar("str", "ab")], EmptyObject)
    [] f.shape = "customers_empty_text" ->
         Tree("dict", << >>, [k \in {"customers"} |-> Scalar("str", "")], EmptyObject)
    [] f.shape = "data_number" ->
         Tree("dict", << >>, [k \in {"data"} |-> Scalar("int", "5")], EmptyObject)
    [] f.shape = "data_null" ->
         Tree("dict", << >>, [k \in {"data"} |-> Scalar("NoneType", "")], EmptyObject)
    [] f.shape = "customers_object" ->
         Tree("dict", << >>, [k \in {"customers"} |-> Obj(f.raws[1])], EmptyObject)
    [] f.shape = "customers_empty_object" ->
         Tree("dict", << >>, [k \in {"customers"} |-> Obj(EmptyObject)], EmptyObject)

\* "Handle different JSON structures": the value bound to records_data
RecordsData(data) ==
  IF data.type = "list" THEN Lst(data.items)
  ELSE IF "customers" \in DOMAIN data.members THEN data.members["customers"]
  ELSE IF "data" \in DOMAIN data.members THEN data.members["data"]
  ELSE Lst(<<Obj(data.self)>>)

\* `for record in records_data`: what iterating the value yields; a list
\* its items, a str its characters, a dict its keys
Iterable(v) == v.type \in {"list", "str", "dict"}
KeysOf(r) ==
  LET RECURSIVE Keys(_)
      Keys(i) == IF i > Len(RequiredFields) THEN << >>
                 ELSE (IF RequiredFields[i] \in DOMAIN r
                         THEN <<Scalar("str", RequiredFields[i])>> ELSE << >>)
                      \o Keys(i + 1)
  IN Keys(1)
Iterate(v) ==
  CASE v.type = "list" -> v.items
    [] v.type = "str" -> [i \in 1..Len(v.s) |-> Scalar("str", At(v.s, i))]
    [] v.type = "dict" -> KeysOf(v.obj)

\* CustomerRecord(**record): record must be a mapping
IsMapping(v) == v.type = "dict"

\* str(ValidationError)
\* one entry per error: the field on a line of its own, then the message
\* (the type and input details that follow the message are left out)
RECURSIVE ErrorLines(_)
ErrorLines(errors) ==
  IF errors = << >> THEN ""
  ELSE "\n" \o (IF errors[1].loc = "" THEN "" ELSE errors[1].loc \o "\n")
            \o "  " \o errors[1].msg \o ErrorLines(Tail(errors))
ValidationErrorText(errors) ==
  ToString(Len(errors))
    \o (IF Len(errors) = 1 THEN " validation error" ELSE " validation errors")
    \o " for CustomerRecord" \o ErrorLines(errors)

\* how the call ended: the list returned, or the exception raised (its
\* class and its text)
Returned(rs) == [state |-> "returned", records |-> rs, error |-> "", kind |-> ""]
RaisedAs(kind, e) == [state |-> "raised", records |-> << >>, error |-> e, kind |-> kind]
Raised(e) == RaisedAs("ValueError", e)

\* what the decoders say about a document they cannot read
DecoderMessage(ext) ==
  CASE ext = ".csv" -> "Error tokenizing data"
    [] ext = ".xlsx" -> "File is not a zip file"
    [] ext = ".json" -> "Expecting value: line 1 column 1 (char 0)"
    [] OTHER -> "cannot open document"

\* the prefix _extract_from_csv / _extract_from_excel put on any failure
ParseFailurePrefix(ext) ==
  IF ext = ".csv" THEN "Failed to parse CSV: " ELSE "Failed to parse Excel: "

\* no delivery is running
DeliveryIdle ==
  /\ customers = << >>
  /\ max_retries = DefaultMaxRetries
  /\ retry_delay = DefaultRetryDelay
  /\ op = "none"
  /\ pc = "off"
  /\ attempt = 0
  /\ last_error = None
  /\ idx = 0
  /\ cycleLog = << >>
  /\ cycleRet = NoRet
  /\ nCycles = 0
  /\ nFailed = 0
  /\ lastCycle = NoRet
  /\ firstSuccess = NoMark
  /\ sleeps = << >>
  /\ nPosts = 0
  /\ result = NoRet

EInit ==
  /\ DeliveryIdle
  /\ HandlerIdle
  /\ ConstructorIdle
  /\ file \in Files
  /\ epc = "idle"
  /\ df = NoTable
  /\ actual_columns = NoColumns
  /\ records_data = << >>
  /\ rowIdx = 0
  /\ row_customers = << >>
  /\ rowLog = << >>
  /\ extraction = NoExtraction
  /\ text_content = ""
  /\ ai_calls = 0
  /\ fallback = ""
  /\ client \in BOOLEAN

\* extract_data_from_file: dispatch on the extension, decode the document
ExtractDataFromFile ==
  /\ epc = "idle"
  /\ IF file.ext \in {".csv", ".xlsx"}
       THEN IF file.decoder = "ok"
              THEN /\ df' = ReadTable(file)
                   /\ epc' = "columns"
                   /\ UNCHANGED <<records_data, rowIdx, extraction>>
              ELSE /\ extraction' = Raised(ParseFailurePrefix(file.ext)
                                           \o DecoderMessage(file.ext))
                   /\ epc' = "done"
                   /\ UNCHANGED <<df, records_data, rowIdx>>
       ELSE IF file.ext = ".json"
       THEN IF file.decoder # "ok"
              THEN /\ extraction' = Raised("Invalid JSON format: "
                                           \o DecoderMessage(file.ext))
                   /\ epc' = "done"
                   /\ UNCHANGED <<df, records_data, rowIdx>>
            ELSE IF JsonLoads(file).type \notin {"list", "dict"}
              THEN /\ extraction' = Raised("Invalid JSON structure")
                   /\ epc' = "done"
                   /\ UNCHANGED <<df, records_data, rowIdx>>
            ELSE IF ~Iterable(RecordsData(JsonLoads(file)))
              THEN /\ extraction' = RaisedAs("TypeError",
                                       "'" \o RecordsData(JsonLoads(file)).type
                                           \o "' object is not iterable")
                   /\ epc' = "done"
                   /\ UNCHANGED <<df, records_data, rowIdx>>
              ELSE /\ records_data' = Iterate(RecordsData(JsonLoads(file)))
                   /\ rowIdx' = 1
                   /\ epc' = "json"
                   /\ UNCHANGED <<df, extraction>>
       ELSE IF file.ext \in {".pdf", ".docx"}
       THEN /\ epc' = "text"
            /\ UNCHANGED <<df, records_data, rowIdx, extraction>>
       ELSE /\ extraction' = Raised("Unsupported file format: " \o file.ext)
            /\ epc' = "done"
            /\ UNCHANGED <<df, records_data, rowIdx>>
  /\ UNCHANGED <<file, actual_columns, row_customers, rowLog>>
  /\ UNCHANGED <<dvars, uvars, hvars, cvars>>

\* _dataframe_to_records up to the row loop: column resolution and the
\* check for the name and email columns
FindColumns ==
  /\ epc = "columns"
  /\ actual_columns' = ResolveColumns(df.columns)
  /\ IF HasRequiredColumns(ResolveColumns(df.columns))
       THEN /\ epc' = "rows"
            /\ rowIdx' = 1
            /\ extraction' = extraction
       ELSE /\ epc' = "done"
            /\ rowIdx' = rowIdx
            /\ extraction' = Raised(ParseFailurePrefix(file.ext)
                                \o "CSV must contain customer name and email columns")
  /\ UNCHANGED <<file, df, records_data, row_customers, rowLog>>
  /\ UNCHANGED <<dvars, uvars, hvars, cvars>>

\* variant: a row that fails validation aborts the table
ProcessRowAborting ==
  /\ epc = "rows"
  /\ rowIdx <= Len(df.rows)
  /\ \E c \in {CustomerRecord(CustomerData(df.rows[rowIdx], actual_columns))} :
       IF c.ok
         THEN /\ row_customers' = Append(row_customers, c.rec)
              /\ rowLog' = Append(rowLog, "ok")
              /\ rowIdx' = rowIdx + 1
              /\ UNCHANGED <<epc, extraction>>
         ELSE /\ extraction' = Raised(ParseFailurePrefix(file.ext)
                                       \o ValidationErrorText(c.errors))
              /\ epc' = "done"
              /\ UNCHANGED <<row_customers, rowLog, rowIdx>>
  /\ UNCHANGED <<file, df, actual_columns, records_data>>
  /\ UNCHANGED <<dvars, uvars, hvars, cvars>>

\* one iteration of `for _, row in df.iterrows()`: a failing row is logged
\* and skipped
ProcessRow ==
  /\ epc = "rows"
  /\ rowIdx <= Len(df.rows)
  /\ \E c \in {CustomerRecord(CustomerData(df.rows[rowIdx], actual_columns))} :
       IF c.ok
         THEN /\ row_customers' = Append(row_customers, c.rec)
              /\ rowLog' = Append(rowLog, "ok")
         ELSE /\ row_customers' = row_customers
              /\ rowLog' = Append(rowLog, "skipped")
  /\ rowIdx' = rowIdx + 1
  /\ UNCHANGED <<file, epc, df, actual_columns, records_data, extraction>>
  /\ UNCHANGED <<dvars, uvars, hvars, cvars>>

\* `return customers` after the last row
MapperReturns ==
  /\ epc = "rows"
  /\ rowIdx > Len(df.rows)
  /\ extraction' = Returned(row_customers)
  /\ epc' = "done"
  /\ UNCHANGED <<file, df, actual_columns, records_data, rowIdx, row_customers, rowLog>>
  /\ UNCHANGED <<dvars, uvars, hvars, cvars>>

\* variant: an element that fails validation is skipped
JsonElementSkipping ==
  /\ epc = "json"
  /\ rowIdx <= Len(records_data)
  /\ \E c \in {CustomerRecord(records_data[rowIdx].obj)} :
       /\ row_customers' = IF c.ok THEN Append(row_customers, c.rec) ELSE row_customers
       /\ rowLog' = Append(rowLog, IF c.ok THEN "ok" ELSE "skipped")
       /\ rowIdx' = rowIdx + 1
       /\ UNCHANGED <<epc, extraction>>
  /\ UNCHANGED <<file, df, actual_columns, records_data>>
  /\ UNCHANGED <<dvars, uvars, hvars, cvars>>

\* one element of [CustomerRecord(**record) for record in records_data]:
\* a ValidationError is not caught and ends the call
JsonElement ==
  /\ epc = "json"
  /\ rowIdx <= Len(records_data)
  /\ \E c \in {CustomerRecord(records_data[rowIdx].obj)} :
       IF ~IsMapping(records_data[rowIdx])
         THEN /\ extraction' = RaisedAs("TypeError",
                   "argument after ** must be a mapping, not "
                       \o records_data[rowIdx].type)
              /\ epc' = "done"
              /\ UNCHANGED <<row_customers, rowLog, rowIdx>>
       ELSE IF c.ok
         THEN /\ row_customers' = Append(row_customers, c.rec)
              /\ rowLog' = Append(rowLog, "ok")
              /\ rowIdx' = rowIdx + 1
              /\ UNCHANGED <<epc, extraction>>
         ELSE /\ extraction' = Raised(ValidationErrorText(c.errors))
              /\ epc' = "done"
              /\ UNCHANGED <<row_customers, rowLog, rowIdx>>
  /\ UNCHANGED <<file, df, actual_columns, records_data>>
  /\ UNCHANGED <<dvars, uvars, hvars, cvars>>

\* the comprehension is complete and the list is returned
JsonReturns ==
  /\ epc = "json"
  /\ rowIdx > Len(records_data)
  /\ extraction' = Returned(row_customers)
  /\ epc' = "done"
  /\ UNCHANGED <<file, df, actual_columns, records_data, rowIdx, row_customers, rowLog>>
  /\ UNCHANGED <<dvars, uvars, hvars, cvars>>

\* _extract_from_pdf / _extract_from_docx up to the AI call: the text is
\* read; a decoder failure and the ValueError raised for a text without
\* content are both caught by `except Exception`, which goes to the regex
\* extractor with the text read so far
ExtractText ==
  /\ epc = "text"
  /\ text_content' = DecodedText(file)
  /\ IF file.decoder # "ok"
       THEN fallback' = "decoder" /\ epc' = "regex"
       ELSE IF Strip(DecodedText(file)) = ""
       THEN fallback' = "empty" /\ epc' = "regex"
       ELSE fallback' = fallback /\ epc' = "ai"
  /\ UNCHANGED <<file, df, actual_columns, records_data, rowIdx, row_customers,
                 rowLog, extraction, client, ai_calls>>
  /\ UNCHANGED <<dvars, hvars, cvars>>

\* variant: a failure of the AI call is not caught
ExtractWithAiRaising ==
  /\ epc = "ai"
  /\ IF ~client
       THEN fallback' = "no_client" /\ epc' = "regex"
            /\ UNCHANGED <<ai_calls, extraction>>
       ELSE /\ ai_calls' = ai_calls + 1
            /\ \E answer \in AiAnswers :
                 IF answer.ok
                   THEN /\ extraction' = Returned(answer.customers)
                        /\ epc' = "done"
                        /\ fallback' = fallback
                   ELSE /\ extraction' = RaisedAs("APIError", "AI extraction failed")
                        /\ epc' = "done"
                        /\ fallback' = fallback
  /\ UNCHANGED <<file, df, actual_columns, records_data, rowIdx, row_customers,
                 rowLog, client, text_content>>
  /\ UNCHANGED <<dvars, hvars, cvars>>

\* _extract_with_ai: without a client the regex extractor is used; with
\* one the AI is called once, and its failure goes to the regex extractor
ExtractWithAi ==
  /\ epc = "ai"
  /\ IF ~client
       THEN fallback' = "no_client" /\ epc' = "regex"
            /\ UNCHANGED <<ai_calls, extraction>>
       ELSE /\ ai_calls' = ai_calls + 1
            /\ \E answer \in AiAnswers :
                 IF answer.ok
                   THEN /\ extraction' = Returned(answer.customers)
                        /\ epc' = "done"
                        /\ fallback' = fallback
                   ELSE /\ extraction' = extraction
                        /\ epc' = "regex"
                        /\ fallback' = "ai_failed"
  /\ UNCHANGED <<file, df, actual_columns, records_data, rowIdx, row_customers,
                 rowLog, client, text_content>>
  /\ UNCHANGED <<dvars, hvars, cvars>>

\* _extract_from_text_with_regex on the text read, and its list returned
RegexFallback ==
  /\ epc = "regex"
  /\ extraction' = Returned(ExtractFromTextWithRegex(text_content))
  /\ epc' = "done"
  /\ UNCHANGED <<file, df, actual_columns, records_data, rowIdx, row_customers,
                 rowLog, client, text_content, ai_calls, fallback>>
  /\ UNCHANGED <<dvars, hvars, cvars>>

ENext ==
  \/ ExtractDataFromFile
  \/ ExtractText
  \/ ExtractWithAi
  \/ RegexFallback
  \/ FindColumns
  \/ ProcessRow
  \/ MapperReturns
  \/ JsonElement
  \/ JsonReturns

ExtractSpec == EInit /\ [][ENext]_vars

\* ====================================================== api/upload.py
HttpBadRequest == 400
HttpInternalServerError == 500

\* the documents uploaded: tables, JSON documents and PDFs with no, one
\* and two valid records, and documents that cannot be read
UploadFiles ==
  { Document(".csv", "table", h, rs) :
      h \in {HeaderRows_Canonical}, rs \in UploadRows }
  \cup { Document(".json", "list", << >>, rs) : rs \in UploadRows }
  \cup { Document(".json", sh, << >>, << >>) :
            sh \in {"scalar", "customers_empty_text", "data_number"} }
  \cup { Malformed(e) : e \in {".csv", ".json"} }
  \cup { Unstructured(".pdf", d, ps) :
            d \in {"ok", "open_fails"},
            ps \in {<<"">>, <<"No contact here">>, <<"John Doe john@example.com">>} }
  \cup { Document(".txt", "none", << >>, << >>) }

UInit ==
  /\ DeliveryIdle
  /\ ConstructorIdle
  /\ file \in UploadFiles
  /\ client \in BOOLEAN
  /\ epc = "off"
  /\ df = NoTable
  /\ actual_columns = NoColumns
  /\ records_data = << >>
  /\ rowIdx = 0
  /\ row_customers = << >>
  /\ rowLog = << >>
  /\ extraction = NoExtraction
  /\ text_content = ""
  /\ ai_calls = 0
  /\ fallback = ""
  /\ hpc = "start"
  /\ response = NoResponse

\* upload_file up to the call of extract_data_from_file: a file that
\* fails the security validation is refused
UploadFile ==
  /\ hpc = "start"
  /\ \E is_valid \in BOOLEAN :
       IF is_valid
         THEN /\ hpc' = "extracting"
              /\ epc' = "idle"
              /\ response' = response
         ELSE /\ hpc' = "done"
              /\ epc' = epc
              /\ response' = HttpException(HttpBadRequest, "Security validation failed",
                                            "File signature does not match extension")
  /\ UNCHANGED <<file, df, actual_columns, records_data, rowIdx, row_customers,
                 rowLog, extraction, uvars>>
  /\ UNCHANGED <<dvars, cvars>>

\* variant: the delivery client is called whatever the number of records
AfterExtractionAlwaysSyncing ==
  /\ hpc = "extracting"
  /\ epc = "done"
  /\ IF extraction.state = "raised"
       THEN /\ response' = (IF extraction.kind = "ValueError"
                              THEN HttpException(HttpBadRequest,
                                     "Data validation failed", extraction.error)
                              ELSE HttpException(HttpInternalServerError,
                                     "Internal server error",
                                     "An unexpected error occurred"))
            /\ hpc' = "done"
            /\ UNCHANGED <<customers, pc>>
       ELSE /\ customers' = [i \in 1..Len(extraction.records) |-> i]
            /\ pc' = "idle"
            /\ hpc' = "syncing"
            /\ response' = response
  /\ UNCHANGED <<evars, cvars>>
  /\ UNCHANGED <<max_retries, retry_delay, op, attempt, last_error, idx, cycleLog,
                 cycleRet, nCycles, nFailed, lastCycle, firstSuccess, sleeps,
                 nPosts, result>>

\* upload_file once extract_data_from_file has ended: its exception is
\* turned into an HTTPException, an empty list is answered at once, any
\* other list is handed to sync_customer_data
AfterExtraction ==
  /\ hpc = "extracting"
  /\ epc = "done"
  /\ IF extraction.state = "raised"
       THEN /\ response' = (IF extraction.kind = "ValueError"
                              THEN HttpException(HttpBadRequest,
                                     "Data validation failed", extraction.error)
                              ELSE HttpException(HttpInternalServerError,
                                     "Internal server error",
                                     "An unexpected error occurred"))
            /\ hpc' = "done"
            /\ UNCHANGED <<customers, pc>>
       ELSE IF extraction.records = << >>
       THEN /\ response' = FileUploadResponse(FALSE,
                                "No valid customer records found in the file", 0, None)
            /\ hpc' = "done"
            /\ UNCHANGED <<customers, pc>>
       ELSE /\ customers' = [i \in 1..Len(extraction.records) |-> i]
            /\ pc' = "idle"
            /\ hpc' = "syncing"
            /\ response' = response
  /\ UNCHANGED <<evars, cvars>>
  /\ UNCHANGED <<max_retries, retry_delay, op, attempt, last_error, idx, cycleLog,
                 cycleRet, nCycles, nFailed, lastCycle, firstSuccess, sleeps,
                 nPosts, result>>

\* upload_file once sync_customer_data has returned
AfterSync ==
  /\ hpc = "syncing"
  /\ pc = "done"
  /\ response' =
       (IF result.success
          THEN FileUploadResponse(TRUE,
                 "Successfully processed " \o ToString(Len(customers))
                     \o " customer records", Len(customers), None)
          ELSE FileUploadResponse(FALSE,
                 "Extracted " \o ToString(Len(customers))
                     \o " records but failed to sync to external API",
                 Len(customers),
                 IF result.error.some /\ result.error.text # ""
                   THEN result.error ELSE None))
  /\ hpc' = "done"
  /\ UNCHANGED <<evars, cvars>>
  /\ UNCHANGED dvars

UNext ==
  \/ UploadFile
  \/ ENext
  \/ AfterExtraction
  \/ SyncCustomerData
  \/ RetryIteration
  \/ RetriesExhausted
  \/ SendDataEnter
  \/ SendSingleBranch
  \/ SendMultiBranch
  \/ SendBatch
  \/ AfterSendData
  \/ AfterSync

UploadSpec == UInit /\ [][UNext]_vars

\* ======================================================= delivery claims
Is2xx(resp) == resp.exc = "none" /\ resp.status \in {200, 201, 202}
SyncDone == op = "sync_customer_data" /\ pc = "done"
CycleReturned == op = "sync_customer_data" /\ cycleRet.set
                   /\ pc \in {"after_send", "retry_head", "send_data", "done"}

\* C1: when every send cycle of a non-empty batch fails, exactly
\* max_retries + 1 send cycles are performed and the failure message
\* reports max_retries + 1 attempts.
C1_AllFailGivesRPlus1Cycles ==
  /\ (op = "sync_customer_data" => nCycles <= max_retries + 1)
  /\ (SyncDone /\ customers # << >> /\ nFailed = nCycles) =>
       /\ nCycles = max_retries + 1
       /\ result.set /\ ~result.success /\ result.error.some
       /\ ContainsText(result.error.text,
                       "after " \o ToString(max_retries + 1) \o " attempts")

C1_Witness ==
  /\ SyncDone /\ Len(customers) = 2 /\ max_retries = DefaultMaxRetries
  /\ nCycles = 4 /\ nFailed = 4 /\ ~result.success
  /\ ContainsText(result.error.text, "after 4 attempts")

\* C2: when delivery fails on every attempt, the returned failure message
\* contains the reason of the last failed send cycle.
C2_MessageCarriesLastReason ==
  (SyncDone /\ customers # << >> /\ result.set /\ ~result.success) =>
     /\ lastCycle.error.some
     /\ ContainsText(result.error.text, lastCycle.error.text)

\* C3: the first successful send cycle ends the delivery with success and
\* no error; nothing is posted or slept afterwards, and k-1 failures followed
\* by a success are exactly k send cycles.
C3_FirstSuccessEndsDelivery ==
  firstSuccess.set =>
     /\ pc = "done"
     /\ result = Ret(Outcome(TRUE, None))
     /\ nPosts = firstSuccess.posts
     /\ Len(sleeps) = firstSuccess.sleeps
     /\ nCycles = firstSuccess.cycles
     /\ nCycles = nFailed + 1
     /\ nCycles <= max_retries + 1

C3_Witness ==
  /\ SyncDone /\ firstSuccess.set /\ nFailed = 2 /\ nCycles = 3
  /\ result.success /\ ~result.error.some

\* C4 (as stated): a send cycle for a one-record batch issues exactly one
\* POST, the individual one, and its result is the cycle's result.
C4_Original_SinglePostOnly ==
  (CycleReturned /\ Len(customers) = 1) =>
     /\ Len(cycleLog) = 1
     /\ cycleLog[1].kind = "individual"
     /\ (cycleRet.success <=> Is2xx(cycleLog[1].resp))

\* C4 (amended): a send cycle for a one-record batch issues exactly one
\* individual POST; if it returns 200, 201 or 202 the cycle succeeds with no
\* other POST, otherwise exactly one aggregate POST follows and the cycle
\* succeeds iff the aggregate POST returns 200, 201 or 202.
C4_SingleThenBatchFallback ==
  (op = "sync_customer_data" /\ Len(customers) = 1 /\ Len(cycleLog) > 0) =>
     /\ cycleLog[1].kind = "individual"
     /\ cycleLog[1].payload = <<customers[1]>>
     /\ Len(cycleLog) <= 2
     /\ IF Is2xx(cycleLog[1].resp)
          THEN /\ Len(cycleLog) = 1
               /\ CycleReturned /\ cycleRet.success
          ELSE \/ Len(cycleLog) = 1 /\ pc = "batch"
               \/ /\ Len(cycleLog) = 2
                  /\ cycleLog[2].kind = "aggregate"
                  /\ CycleReturned
                  /\ (cycleRet.success <=> Is2xx(cycleLog[2].resp))

C4_Witness ==
  /\ CycleReturned /\ Len(customers) = 1 /\ Len(cycleLog) = 2
  /\ cycleLog[1].resp.status = 500 /\ cycleLog[2].kind = "aggregate"
  /\ cycleLog[2].resp.status = 202 /\ cycleRet.success

\* C5: in a send cycle for n > 1 records, the first failing individual POST
\* is the last individual POST; exactly one aggregate POST follows it and
\* its result is the cycle's result; the cycle issues at most n + 1 POSTs.
C5_FailureFallsBackToOneAggregate ==
  (op = "sync_customer_data" /\ Len(customers) > 1) =>
     /\ Len(cycleLog) <= Len(customers) + 1
     /\ Cardinality({j \in 1..Len(cycleLog) : cycleLog[j].kind = "aggregate"}) <= 1
     /\ \A j \in 1..Len(cycleLog) :
          (cycleLog[j].kind = "individual" /\ ~Is2xx(cycleLog[j].resp)) =>
             \/ j = Len(cycleLog) /\ pc = "batch"
             \/ /\ Len(cycleLog) = j + 1
                /\ cycleLog[j + 1].kind = "aggregate"
                /\ cycleLog[j + 1].payload = customers
                /\ CycleReturned
                /\ (cycleRet.success <=> Is2xx(cycleLog[j + 1].resp))

C5_Witness ==
  /\ CycleReturned /\ Len(customers) = 2 /\ Len(cycleLog) = 2
  /\ cycleLog[1].kind = "individual" /\ cycleLog[1].resp.status = 500
  /\ cycleLog[2].kind = "aggregate" /\ Is2xx(cycleLog[2].resp)
  /\ cycleRet.success

C7_TimeoutGivesTypedReason ==
  (CycleReturned /\ Len(cycleLog) > 0
     /\ cycleLog[Len(cycleLog)].resp.exc = "TimeoutError") =>
       /\ ~cycleRet.success
       /\ cycleRet.error = Str("Request timeout")

RECURSIVE ValidRecords(_, _)
RecordIfValid(c) == IF c.ok THEN <<c.rec>> ELSE << >>
ValidRecords(rows, actual) ==
  IF rows = << >> THEN << >>
  ELSE RecordIfValid(CustomerRecord(CustomerData(Head(rows), actual)))
         \o ValidRecords(Tail(rows), actual)

\* two raw records, one valid and one without its email, in either order
OneValidOneWithoutEmail(rs) ==
  /\ Len(rs) = 2
  /\ \E i \in 1..2 : /\ CustomerRecord(rs[i]).ok
                     /\ "email" \notin DOMAIN rs[3 - i]
ValidOf(rs) == rs[CHOOSE i \in 1..2 : CustomerRecord(rs[i]).ok]

\* C9: a valid record and a record without its email fail the whole call
\* when they are the elements of a JSON document, and give exactly one
\* record, the valid one, when they are two rows of a table.
C9_StrictJsonPermissiveTable ==
  (epc = "done" /\ OneValidOneWithoutEmail(file.raws)) =>
     /\ (file.ext = ".json" =>
           /\ extraction.state = "raised"
           /\ extraction.records = << >>)
     /\ (file.shape = "table" /\ HasRequiredColumns(actual_columns) =>
           /\ extraction.state = "returned"
           /\ Len(extraction.records) = 1
           /\ extraction.records[1].customer_name
                = CustomerRecord(ValidOf(file.raws)).rec.customer_name
           /\ extraction.records[1].email
                = CustomerRecord(ValidOf(file.raws)).rec.email
           /\ (Len(df.columns) = 4 /\ DOMAIN actual_columns = DOMAIN ValidJohn =>
                 extraction.records = <<CustomerRecord(ValidOf(file.raws)).rec>>))

C9_Witness ==
  /\ epc = "done" /\ file.ext = ".json" /\ file.shape = "data"
  /\ file.raws = <<ValidJohn, NoEmailBob>>
  /\ rowLog = <<"ok">>
  /\ extraction.state = "raised"

Unresolved(field) == field \notin DOMAIN ResolveColumns(df.columns)
ColumnsMessage == "must contain customer name and email columns"

JoinDateHeaders == <<"Name", "Email", "Plan", "Join Date">>

\* C12: for a table with headers Name, Email, Plan, Join Date and one
\* valid row, a header is bound to each of the four fields, and exactly one
\* record is produced whose tier comes from the Plan column and whose date
\* comes from the Join Date column.
C12_AllFourFieldsBound ==
  (epc = "done" /\ file.shape = "table" /\ df.columns = JoinDateHeaders
     /\ Len(file.raws) = 1 /\ CustomerRecord(file.raws[1]).ok) =>
     /\ DOMAIN actual_columns
          = {"customer_name", "email", "subscription_tier", "signup_date"}
     /\ extraction = Returned(<<CustomerRecord(file.raws[1]).rec>>)

\* C16: structured-object ingest accepts a top-level sequence of objects,
\* an object whose customers or data key holds such a sequence, and a
\* single bare object; every other decoded shape (a scalar, a sequence of
\* scalars, a customers/data value that is not a sequence of objects) fails
\* with the invalid-structure error, and the three shapes never do.
C16_OnlyThreeShapesAccepted ==
  (epc = "done" /\ file.ext = ".json" /\ file.decoder = "ok") =>
     /\ (file.shape \in OtherJsonShapes =>
           extraction = Raised("Invalid JSON structure"))
     /\ (file.shape \in JsonShapes =>
           /\ extraction.error # "Invalid JSON structure"
           /\ (\A i \in 1..Len(file.raws) : CustomerRecord(file.raws[i]).ok)
                 => extraction.state = "returned")

\* an unstructured document whose decoder read it to the end
TextRead == file.shape = "text" /\ file.decoder = "ok"
BlankText == Strip(DecodedText(file)) = ""

\* C13: for a PDF or DOCX document whose extracted text is empty or only
\* whitespace, extraction fails with an error; it returns no list, not
\* even an empty one.
C13_EmptyTextFails ==
  (epc = "done" /\ TextRead /\ BlankText) =>
     /\ extraction.state = "raised"
     /\ extraction.records = << >>

\* C14: once the decoder of a document has failed, whatever the format
\* (CSV, Excel, JSON, PDF, DOCX), extraction ends with an error and never
\* returns a list of records.
C14_DecoderFailureAborts ==
  (epc = "done" /\ file.decoder # "ok") => extraction.state = "raised"

\* C15: for an unstructured document with non-empty extracted text,
\* extraction never raises; without an AI client the AI is never called and
\* the result is the regex extractor's output on that text; with a client
\* the AI is called exactly once, and when that call fails the result is
\* the regex extractor's output on the same text.
C15_FallbackNeverRaises ==
  (TextRead /\ ~BlankText /\ epc \in {"ai", "regex", "done"}) =>
     /\ extraction.state # "raised"
     /\ text_content = DecodedText(file)
     /\ (epc = "done" => extraction.state = "returned")
     /\ (~client =>
           /\ ai_calls = 0
           /\ (epc = "done" =>
                 extraction = Returned(ExtractFromTextWithRegex(DecodedText(file)))))
     /\ (client =>
           /\ ai_calls = (IF epc = "ai" THEN 0 ELSE 1)
           /\ (epc = "done" /\ fallback = "ai_failed" =>
                 extraction = Returned(ExtractFromTextWithRegex(DecodedText(file)))))

C15_Witness ==
  /\ epc = "done" /\ TextRead /\ ~BlankText
  /\ client /\ ai_calls = 1 /\ fallback = "ai_failed"
  /\ extraction.state = "returned"
  /\ Len(extraction.records) = 2


\* ============== services/extraction.py: _extract_from_text_with_regex
\* a word one character longer than a customer name may be
RECURSIVE Repeat(_, _)
Twice(t) == t \o t
Repeat(c, n) ==
  IF n = 0 THEN ""
  ELSE IF n % 2 = 0 THEN Twice(Repeat(c, n \div 2))
  ELSE c \o Repeat(c, n - 1)
LongWord == Repeat("a", NameMaxLength + 1)

\* lines of text: a name before an email, an email in capitals, more than
\* three words before the email, an email alone, no email, two emails, an
\* email that is the end of a longer one, a word too long for a name
LineSamples ==
  {"John Doe john@example.com",
   "jane smith JANE@Company.COM joined",
   "Please contact our sales manager at bob@x.io",
   "john@example.com",
   "No contact here",
   "Ann ann@a.co, Bob bob@x.io",
   "Big bigjohn@example.com",
   "Mr Smith john@example.com",
   LongWord \o " long@x.io"}
TextSamples ==
  LineSamples \cup {a \o "\n" \o b : a \in LineSamples, b \in LineSamples}

TInit ==
  /\ DeliveryIdle
  /\ HandlerIdle
  /\ ConstructorIdle
  /\ file = NoFile
  /\ client = FALSE
  /\ epc = "regex"
  /\ df = NoTable
  /\ actual_columns = NoColumns
  /\ records_data = << >>
  /\ rowIdx = 0
  /\ row_customers = << >>
  /\ rowLog = << >>
  /\ extraction = NoExtraction
  /\ text_content \in TextSamples
  /\ ai_calls = 0
  /\ fallback = ""

TNext == RegexFallback

TextSpec == TInit /\ [][TNext]_vars

\* ============================== models/schemas.py: CustomerRecord(**data)
\* values given for each field: well formed, in need of normalisation,
\* invalid, and of another type
NameSamples ==
  {StrVal("John Doe"), StrVal("  Mary   Ann\tLee "), StrVal(""), StrVal("   "), NullVal}
EmailSamples ==
  {StrVal("john@example.com"), StrVal("  John.Doe@Example.COM "), StrVal("ann@example"),
   StrVal("a b@x.io"), NullVal}
TierSamples ==
  {StrVal("Pro"), StrVal(" PREMIUM "), StrVal("gold"), TierVal("Enterprise"), NullVal,
   StrVal("Basic"), StrVal("Enterprise"), StrVal("corp"), StrVal(""),
   TierVal("Basic"), TierVal("Pro"), IntVal("3")}
DateSamples ==
  {StrVal("2024-01-15"), StrVal(" 01/20/2024 "), StrVal("January 1st, 2024"),
   StrVal("Jan 5th 2024"), StrVal("2024-02-30"), DateVal(<<2024, 2, 29>>), NullVal}

\* the mappings CustomerRecord is constructed from: every combination of
\* the samples, under every subset of the four keys
FullMappings ==
  [customer_name : NameSamples, email : EmailSamples,
   subscription_tier : TierSamples, signup_date : DateSamples]
KeySet == {RequiredFields[i] : i \in 1..Len(RequiredFields)}
Restrict(m, keys) == [k \in keys |-> m[k]]
CompleteMappings == {Restrict(m, keys) : m \in FullMappings, keys \in SUBSET KeySet}

\* mappings some of whose keys are spelled with other letter cases
Respelled(k) ==
  CASE k = "customer_name" -> "Customer_Name"
    [] k = "email" -> "Email"
    [] k = "subscription_tier" -> "SUBSCRIPTION_TIER"
    [] k = "signup_date" -> "Signup_Date"
Original(k) == IF k \in KeySet THEN k ELSE CHOOSE f \in KeySet : Respelled(f) = k
Respell(m, keys) ==
  [k \in (KeySet \ keys) \cup {Respelled(f) : f \in keys} |-> m[Original(k)]]
RespelledSamples ==
  [customer_name : {StrVal("John Doe")},
   email : {StrVal("john@example.com"), StrVal("ann@example")},
   subscription_tier : {StrVal("Pro")},
   signup_date : {StrVal("2024-01-15"), StrVal("2024-02-30")}]
RespelledMappings ==
  {Respell(m, keys) : m \in RespelledSamples, keys \in (SUBSET KeySet) \ {{}}}

\* date.strftime: what a directive or a literal of a format writes for the
\* date d
Pad4(n) ==
  IF n < 10 THEN "000" \o ToString(n)
  ELSE IF n < 100 THEN "00" \o ToString(n)
  ELSE IF n < 1000 THEN "0" \o ToString(n)
  ELSE ToString(n)
Written(e, d) ==
  CASE e = "%Y" -> Pad4(d[1])
    [] e = "%y" -> Pad2(d[1] % 100)
    [] e = "%m" -> Pad2(d[2])
    [] e = "%d" -> Pad2(d[3])
    [] e = "%B" -> Title(MonthNames[d[2]], FALSE)
    [] e = "%b" -> Title(MonthAbbrs[d[2]], FALSE)
    [] OTHER -> e
RECURSIVE Strftime(_, _)
Strftime(d, fmt) ==
  IF fmt = << >> THEN "" ELSE Written(Head(fmt), d) \o Strftime(d, Tail(fmt))

\* the years a format with a two-digit year can tell apart
PivotFirstYear == 1969
PivotLastYear == 2068
HasDirective(fmt, e) == \E i \in 1..Len(fmt) : fmt[i] = e
Representable(d, fmt) ==
  HasDirective(fmt, "%y") => d[1] \in PivotFirstYear..PivotLastYear

\* dates written in each of the formats: days up to 12 and beyond, a day
\* equal to its month, a leap day, the ends of the two-digit years
SampleDates ==
  {<<2024, 2, 1>>, <<2024, 1, 15>>, <<2024, 5, 5>>, <<2024, 2, 29>>,
   <<1999, 12, 31>>, <<2068, 9, 7>>, <<1969, 3, 12>>, <<1950, 6, 20>>}
FormattedMappings ==
  {[customer_name |-> StrVal("John Doe"), email |-> StrVal("john@example.com"),
    subscription_tier |-> StrVal("Pro"),
    signup_date |-> StrVal(Strftime(d, DateFormats[i]))] :
      d \in SampleDates, i \in 1..Len(DateFormats)}

\* slash-separated texts AA/BB/YYYY, AA and BB up to 12 and beyond
SlashValues == {1, 2, 5, 12, 13, 29, 30, 31}
SlashText(a, b) == Pad2(a) \o "/" \o Pad2(b) \o "/2024"
\* month m, day d of the year of these texts
SlashDate(m, d) == <<2024, m, d>>
SlashDays(m) == DaysInMonth(SlashDate(m, 1)[1], m)
SlashMappings ==
  {[customer_name |-> StrVal("John Doe"), email |-> StrVal("john@example.com"),
    subscription_tier |-> StrVal("Pro"), signup_date |-> StrVal(SlashText(a, b))] :
      a \in SlashValues, b \in SlashValues}

InputMappings ==
  CompleteMappings \cup RespelledMappings \cup FormattedMappings \cup SlashMappings

VInit ==
  /\ DeliveryIdle
  /\ ExtractionIdle
  /\ HandlerIdle
  /\ kwargs \in InputMappings
  /\ instance = NoInstance

\* CustomerRecord(**kwargs)
Construct ==
  /\ instance = NoInstance
  /\ instance' = CustomerRecord(kwargs)
  /\ UNCHANGED <<kwargs, dvars, evars, hvars>>

VNext == Construct

ValidateSpec == VInit /\ [][VNext]_vars

\* ---------------------------------------------------------------- C17
\* the extraction handed the upload handler an empty list of records
ExtractedNothing ==
  extraction.state = "returned" /\ extraction.records = << >>

\* sync_customer_data has been called
DeliveryCalled == op = "sync_customer_data"

\* C17: when the extraction of an uploaded document yields no record, the
\* upload handler answers with a FileUploadResponse (not an exception)
\* that reports 0 processed records and the delivery client is never
\* called; the delivery client is only ever called with the extracted
\* records, of which there is at least one.
C17_ZeroRecordsAnsweredWithoutDelivery ==
  /\ ExtractedNothing => ~DeliveryCalled /\ nPosts = 0
  /\ (hpc = "done" /\ ExtractedNothing) =>
        /\ response.kind = "FileUploadResponse"
        /\ response.processed_records = 0
        /\ ~response.success
  /\ (hpc # "off" /\ DeliveryCalled) =>
        /\ Len(customers) >= 1
        /\ extraction.state = "returned"
        /\ Len(customers) = Len(extraction.records)

\* an upload whose rows were all rejected has been answered
C17_Witness ==
  /\ hpc = "done"
  /\ ExtractedNothing
  /\ file.raws # << >>
  /\ response.kind = "FileUploadResponse"
  /\ response.processed_records = 0


\* ---------------------------------------------------------------- C18
\* CustomerRecord(**kwargs) returned an instance
Constructed == instance.ok

\* a name without leading or trailing whitespace and without two spaces
\* in a row
NormalizedName(n) ==
  /\ n # ""
  /\ ~IsSpace(At(n, 1))
  /\ ~IsSpace(At(n, Len(n)))
  /\ \A i \in 1..(Len(n) - 1) : ~(At(n, i) = " " /\ At(n, i + 1) = " ")

\* a day of the calendar
IsCalendarDate(d) ==
  /\ Len(d) = 3
  /\ d[1] \in 1..9999
  /\ d[2] \in 1..12
  /\ d[3] \in 1..DaysInMonth(d[1], d[2])

\* C18: every successfully constructed CustomerRecord has its four fields
\* present and normalized: the name is not empty, has no leading or
\* trailing whitespace and no run of more than one space; the email is its
\* own trimmed lower-cased form and matches the email pattern; the tier is
\* Basic, Pro or Enterprise; signup_date is a calendar date; and there is
\* no instance for an input with a missing key or a failing field.
C18_ConstructedRecordIsNormalized ==
  Constructed =>
    /\ NormalizedName(instance.rec.customer_name)
    /\ instance.rec.email = Lower(Strip(instance.rec.email))
    /\ EmailMatch(instance.rec.email)
    /\ instance.rec.subscription_tier \in Tiers
    /\ IsCalendarDate(instance.rec.signup_date)
    /\ instance.errors = << >>
    /\ KeySet \subseteq DOMAIN kwargs
    /\ kwargs.customer_name.t = "str" /\ Strip(kwargs.customer_name.s) # ""
    /\ kwargs.email.t = "str" /\ EmailMatch(Lower(Strip(kwargs.email.s)))
    /\ kwargs.signup_date.t \in {"str", "date"}

\* an instance whose name, email, tier and date all had to be normalized
C18_Witness ==
  /\ Constructed
  /\ kwargs.customer_name = StrVal("  Mary   Ann\tLee ")
  /\ instance.rec.customer_name = "Mary Ann Lee"
  /\ kwargs.email = StrVal("  John.Doe@Example.COM ")
  /\ instance.rec.email = "john.doe@example.com"
  /\ kwargs.subscription_tier = StrVal(" PREMIUM ")
  /\ instance.rec.subscription_tier = "Pro"
  /\ kwargs.signup_date = StrVal("January 1st, 2024")
  /\ instance.rec.signup_date = <<2024, 1, 1>>


\* ---------------------------------------------------------------- C19
\* CustomerRecord(**kwargs) raised a ValidationError
Rejected == instance # NoInstance /\ ~instance.ok

\* the fields the errors of a ValidationError are about, in their order
RECURSIVE Locs(_)
Locs(errors) ==
  IF errors = << >> THEN << >> ELSE <<errors[1].loc>> \o Locs(Tail(errors))

\* the value given for a field does not pass the field's validation
FieldFails(field, v) ==
  CASE field = "customer_name" -> ~ValidateName(v).ok
    [] field = "email" -> ~ValidateEmail(v).ok
    [] field = "subscription_tier" -> ~NormalizeSubscriptionTier(v).ok
    [] field = "signup_date" -> ~ParseSignupDate(v).ok

\* the fields of a complete mapping that fail, in the checking order
RECURSIVE FailingFrom(_, _)
FailingFrom(m, i) ==
  IF i > Len(RequiredFields) THEN << >>
  ELSE (IF FieldFails(RequiredFields[i], m[RequiredFields[i]])
          THEN <<RequiredFields[i]>> ELSE << >>) \o FailingFrom(m, i + 1)
FailingFields(m) == FailingFrom(m, 1)

\* C19 as stated: a rejection names only the first failing check, in the
\* order presence, name, email, tier, date.
C19_Original_OnlyFirstFailureNamed ==
  Rejected =>
    /\ Len(instance.errors) = 1
    /\ (KeySet \subseteq DOMAIN kwargs) =>
          Locs(instance.errors) = <<FailingFields(kwargs)[1]>>

\* C19 (amended): an input with an absent required key is rejected with
\* the missing-required-fields error alone; an input with all four keys is
\* rejected with one error for every failing field, in the order name,
\* email, tier, date, so the first error is the first failing check and the
\* later failures are reported as well.
C19_EveryFailingFieldNamedInOrder ==
  Rejected =>
    IF ~(KeySet \subseteq DOMAIN kwargs)
      THEN Locs(instance.errors) = <<"">>
      ELSE /\ Locs(instance.errors) = FailingFields(kwargs)
           /\ FailingFields(kwargs) # << >>

\* an empty name and an unparseable date are both reported, the name first
C19_Witness ==
  /\ Rejected
  /\ KeySet \subseteq DOMAIN kwargs
  /\ kwargs.customer_name = StrVal("")
  /\ kwargs.signup_date = StrVal("2024-02-30")
  /\ Locs(instance.errors) = <<"customer_name", "signup_date">>


\* ---------------------------------------------------------------- C20
\* a required key is absent from the mapping
KeyAbsent == instance # NoInstance /\ ~(KeySet \subseteq DOMAIN kwargs)

MissingPrefix == "Missing required fields: "

\* C20: when any of the four required keys is absent from the input
\* mapping, the construction is rejected with the missing-required-fields
\* reason, which lists every absent key and no present key; it is the only
\* error, raised before any field value is validated, so invalid values
\* under the present keys do not change it.
C20_AbsentKeysAllListed ==
  KeyAbsent =>
    /\ ~instance.ok
    /\ Len(instance.errors) = 1
    /\ instance.errors[1].loc = ""
    /\ SubSeq(instance.errors[1].msg, 1, Len(MissingPrefix)) = MissingPrefix
    /\ \A f \in KeySet :
         ContainsText(instance.errors[1].msg, "'" \o f \o "'") <=> f \notin DOMAIN kwargs

\* two keys are absent and the values under the two present keys are
\* invalid: the reason lists the two absent keys
C20_Witness ==
  /\ KeyAbsent
  /\ DOMAIN kwargs = {"customer_name", "signup_date"}
  /\ kwargs.customer_name = StrVal("   ")
  /\ kwargs.signup_date = StrVal("2024-02-30")
  /\ instance.errors =
       <<FieldError("", "Missing required fields: ['email', 'subscription_tier']")>>


\* ---------------------------------------------------------------- C21
\* the mapping has a key that is the field's name in other letter cases,
\* and not the field's name itself
RespelledOnly(f) ==
  /\ f \notin DOMAIN kwargs
  /\ \E k \in DOMAIN kwargs : Lower(k) = f

\* the rejection reports the field as missing
ReportedMissing(f) ==
  /\ ~instance.ok
  /\ \E i \in 1..Len(instance.errors) :
       /\ instance.errors[i].loc = ""
       /\ ContainsText(instance.errors[i].msg, MissingPrefix)
       /\ ContainsText(instance.errors[i].msg, "'" \o f \o "'")

\* C21 as stated: a key that differs from the canonical key only in letter
\* case is not reported as a missing field.
C21_Original_KeysMatchedIgnoringCase ==
  instance # NoInstance =>
    \A f \in KeySet : RespelledOnly(f) => ~ReportedMissing(f)

\* C21 (amended): the presence check compares keys exactly; a field whose
\* key is given only in other letter cases is reported as missing and the
\* input is rejected, whatever the values are.
C21_KeysMatchedExactly ==
  instance # NoInstance =>
    \A f \in KeySet : RespelledOnly(f) => ReportedMissing(f)

\* `Email` is given for `email`, the other keys and all values are right:
\* the input is rejected for the missing field email
C21_Witness ==
  /\ instance # NoInstance
  /\ DOMAIN kwargs = {"customer_name", "Email", "subscription_tier", "signup_date"}
  /\ kwargs["Email"] = StrVal("john@example.com")
  /\ kwargs.signup_date = StrVal("2024-01-15")
  /\ instance.errors = <<FieldError("", "Missing required fields: ['email']")>>


\* ---------------------------------------------------------------- C22
\* the keys of tier_mapping
SynonymKeys ==
  {"professional", "prem", "premium", "pro", "basic", "enterprise", "corp", "corporate"}

\* what C22 says of one value v and of r, the outcome of normalizing it
TierLaws(v, r) ==
  /\ r.ok
  /\ r.val.t = "SubscriptionTier"
  /\ r.val.s \in Tiers
  /\ NormalizeSubscriptionTier(r.val) = r
  /\ NormalizeSubscriptionTier(StrVal(r.val.s)) = r
  /\ (v.t = "SubscriptionTier" \/ (v.t = "str" /\ v.s \in Tiers)) => r.val.s = v.s
  /\ (v.t = "str" /\ Lower(Strip(v.s)) \notin SynonymKeys) => r.val.s = "Basic"
  /\ v.t \notin {"str", "SubscriptionTier"} => r.val.s = "Basic"

\* C22: tier normalization never fails and is idempotent: every value (a
\* tier, any string, any other type) normalizes to Basic, Pro or
\* Enterprise; a canonical tier, as enum or as its string, normalizes to
\* itself, so normalizing the outcome again changes nothing; a string
\* outside the synonym table and a value that is neither string nor tier
\* give Basic; and the constructed record carries that tier.
C22_TierNormalizationTotalIdempotent ==
  (instance # NoInstance /\ "subscription_tier" \in DOMAIN kwargs) =>
    /\ TierLaws(kwargs.subscription_tier,
                NormalizeSubscriptionTier(kwargs.subscription_tier))
    /\ \A i \in 1..Len(instance.errors) : instance.errors[i].loc # "subscription_tier"
    /\ instance.ok =>
         instance.rec.subscription_tier =
           NormalizeSubscriptionTier(kwargs.subscription_tier).val.s

\* a record was constructed from a value that is not a string: its tier
\* is Basic
C22_Witness ==
  /\ instance.ok
  /\ kwargs.subscription_tier = IntVal("3")
  /\ instance.rec.subscription_tier = "Basic"


\* ---------------------------------------------------------------- C23
\* the text given as signup_date is the date d written in format i
WrittenAs(d, i) ==
  /\ instance # NoInstance
  /\ KeySet \subseteq DOMAIN kwargs
  /\ Representable(d, DateFormats[i])
  /\ kwargs.signup_date = StrVal(Strftime(d, DateFormats[i]))

\* the outcome of parse_signup_date on the text given
Parsed == ParseSignupDate(kwargs.signup_date)

\* C23 as stated: for each of the 13 formats and every date d the format
\* can represent, parsing d written in that format gives d.
C23_Original_EveryFormatRoundTrips ==
  \A d \in SampleDates, i \in 1..Len(DateFormats) :
    WrittenAs(d, i) => Parsed.ok /\ Parsed.val.d = d

\* the formats that an earlier format of the list reads with day and
\* month exchanged: %d/%m/%Y after %m/%d/%Y, and %m-%d-%Y after %d-%m-%Y
ShadowedFormats == {<<"%d", "/", "%m", "/", "%Y">>, <<"%m", "-", "%d", "-", "%Y">>}
Exchanged(d) == <<d[1], d[3], d[2]>>

\* C23 (amended): parsing d written in a format gives d for each of the 13
\* formats, except that a date with a day up to 12 written as DD/MM/YYYY or
\* as MM-DD-YYYY is read by the earlier format MM/DD/YYYY or DD-MM-YYYY and
\* comes back with day and month exchanged; the constructed record
\* carries the parsed date.
C23_RoundTripUnlessShadowed ==
  \A d \in SampleDates, i \in 1..Len(DateFormats) :
    WrittenAs(d, i) =>
      /\ Parsed.ok
      /\ Parsed.val.d = (IF DateFormats[i] \in ShadowedFormats /\ d[3] <= 12
                           THEN Exchanged(d) ELSE d)
      /\ instance.ok => instance.rec.signup_date = Parsed.val.d

\* 7 September 2068 written with a two-digit year came back as itself
C23_Witness ==
  /\ WrittenAs(<<2068, 9, 7>>, 7)
  /\ kwargs.signup_date = StrVal("07 Sep 68")
  /\ instance.ok
  /\ instance.rec.signup_date = <<2068, 9, 7>>


\* ---------------------------------------------------------------- C24
\* a text was given as signup_date, with all four keys
TextDateGiven ==
  /\ instance # NoInstance
  /\ KeySet \subseteq DOMAIN kwargs
  /\ kwargs.signup_date.t = "str"

\* the formats that accept the text, by their place in the list
Accepting(x) == {i \in 1..Len(DateFormats) : Strptime(x, DateFormats[i]).ok}

\* r is the outcome of the first format of the list that accepts x
FirstMatchWins(x, r) ==
  Accepting(x) # {} =>
    /\ r = Strptime(x, DateFormats[FirstOf(Accepting(x))])
    /\ \A j \in 1..(FirstOf(Accepting(x)) - 1) : ~Strptime(x, DateFormats[j]).ok

\* what C24 says of the text AA/BB/YYYY and of r, the outcome of parsing it
SlashLaw(a, b, r) ==
  /\ (a <= 12 /\ b <= SlashDays(a)) => r = Good(DateVal(SlashDate(a, b)))
  /\ (a <= 12 /\ r.ok) => r.val.d = SlashDate(a, b)
  /\ (a > 12 /\ b <= 12 /\ a <= SlashDays(b)) => r = Good(DateVal(SlashDate(b, a)))
  /\ (r.ok /\ a # b /\ r.val.d = SlashDate(b, a)) => (a > 12 /\ b <= 12)

TextExtracted == epc = "done" /\ extraction.state = "returned"

\* the email-pattern matches of the text, in the order they occur
Matches == FindAll(text_content, 1)

\* every record has the default tier and the date of today
DefaultsOnly(records) ==
  \A i \in 1..Len(records) :
    /\ records[i].subscription_tier = "Basic"
    /\ records[i].signup_date = Today

\* C25 as stated: exactly one record per email-pattern match, in the order
\* of the matches, without deduplication, each with tier Basic and the
\* date of today.
C25_Original_OneRecordPerMatch ==
  TextExtracted =>
    /\ Len(extraction.records) = Len(Matches)
    /\ \A i \in 1..Len(extraction.records) :
         extraction.records[i].email = Lower(Matches[i])
    /\ DefaultsOnly(extraction.records)

\* the matches whose candidate is kept: the text taken as the name is not
\* longer than a name may be
RECURSIVE Kept(_, _)
Kept(text, emails) ==
  IF emails = << >> THEN << >>
  ELSE (IF Len(NameFor(text, Head(emails))) <= NameMaxLength
          THEN <<Lower(Head(emails))>> ELSE << >>) \o Kept(text, Tail(emails))

\* the emails of the records, in their order
RECURSIVE EmailsOf(_)
EmailsOf(records) ==
  IF records = << >> THEN << >> ELSE <<records[1].email>> \o EmailsOf(Tail(records))

\* C25 (amended): one record per email-pattern match whose candidate
\* passes validation, in the order of the matches and without
\* deduplication; the only candidate dropped is one whose name, taken from
\* the line, is longer than 255 characters; every record has tier Basic
\* and the date of today.
C25_OneRecordPerValidCandidate ==
  TextExtracted =>
    /\ EmailsOf(extraction.records) = Kept(text_content, Matches)
    /\ DefaultsOnly(extraction.records)

\* the same email on two lines gave two records
C25_Witness ==
  /\ TextExtracted
  /\ text_content = "John Doe john@example.com\njohn@example.com"
  /\ EmailsOf(extraction.records) = <<"john@example.com", "john@example.com">>


\* ---------------------------------------------------------------- C29
\* where the email-pattern matches of the text start, in their order
RECURSIVE StartsFrom(_, _)
StartOrResume(s, p, e) ==
  IF e = 0 THEN StartsFrom(s, Resume(s, p)) ELSE <<p>> \o StartsFrom(s, e + 1)
StartsFrom(s, p) ==
  IF p > Len(s) THEN << >> ELSE StartOrResume(s, p, EmailEnd(s, p))

\* the text between the start of the line of position pos and pos
LineStart(s, pos) == 1 + LastOf({q \in 1..(pos - 1) : At(s, q) = "\n"} \cup {0})
BeforeOnLine(s, pos) == SubSeq(s, LineStart(s, pos), pos - 1)

\* the name of a match that starts at pos: the text before it on its own
\* line when that has one to three words, else the placeholder; in the
\* record its whitespace is normalized
NameAt(s, pos) == JoinSpace(Split(NameOfWords(Strip(BeforeOnLine(s, pos)))))

\* C29: the name of each record is derived from the line on which that
\* email match occurs: the text of that line before the email, title-cased,
\* when it is not empty and has at most 3 words, otherwise "Unknown"; also
\* when the same email occurs on several lines or inside a longer string
\* on an earlier line.
C29_NameFromLineOfMatch ==
  (TextExtracted /\ Len(extraction.records) = Len(Matches)) =>
    \A i \in 1..Len(extraction.records) :
      extraction.records[i].customer_name =
        NameAt(text_content, StartsFrom(text_content, 1)[i])


\* ---------------------------------------------------------------- C26
\* the POSTs of the current send cycle that carry one record
IndividualPosts == {k \in 1..Len(cycleLog) : cycleLog[k].kind = "individual"}

\* C26: in a send cycle for a batch of n > 1 records the individual POSTs
\* are issued one at a time in batch order, the POST of record i only after
\* the POSTs of all earlier records of this cycle returned success; when all
\* n succeed, the cycle succeeds after exactly n POSTs and without an
\* aggregate POST.
C26_IndividualPostsInOrderAfterSuccess ==
  (op = "sync_customer_data" /\ Len(customers) > 1) =>
    /\ \A k \in IndividualPosts :
         /\ k <= Len(customers)
         /\ cycleLog[k].payload = <<customers[k]>>
         /\ \A j \in 1..(k - 1) : j \in IndividualPosts /\ Is2xx(cycleLog[j].resp)
    /\ (pc = "multi" => idx = Len(cycleLog) + 1)
    /\ ((\A k \in 1..Len(customers) : k \in IndividualPosts /\ Is2xx(cycleLog[k].resp)) =>
          /\ Len(cycleLog) = Len(customers)
          /\ CycleReturned
          /\ cycleRet = Ret(Outcome(TRUE, None)))

\* both records of a batch were posted one after the other and accepted
C26_Witness ==
  /\ CycleReturned /\ Len(customers) = 2 /\ Len(cycleLog) = 2
  /\ cycleLog[1].kind = "individual" /\ cycleLog[1].payload = <<customers[1]>>
  /\ cycleLog[2].kind = "individual" /\ cycleLog[2].payload = <<customers[2]>>
  /\ Is2xx(cycleLog[1].resp) /\ Is2xx(cycleLog[2].resp)
  /\ cycleRet.success


\* ---------------------------------------------------------------- C27
\* the retry loop is inside a send cycle (zero-based attempt `attempt`)
InCycle == op = "sync_customer_data"
           /\ pc \in {"send_data", "single", "multi", "batch", "after_send"}

\* C27: the retry loop sleeps nothing before the first send cycle and
\* exactly retry_delay * 2^(k-1) before the k-th retry, once per retry and
\* before that retry's first POST; with the default delay 1 and 3 retries the
\* sleeps are 1, 2, 4.
C27_BackoffSleepsBeforeEachRetry ==
  op = "sync_customer_data" =>
    /\ \A k \in 1..Len(sleeps) : sleeps[k] = retry_delay * (2 ^ (k - 1))
    /\ (InCycle => Len(sleeps) = attempt)
    /\ (pc = "retry_head" => Len(sleeps) = IF attempt = 0 THEN 0 ELSE attempt - 1)
    /\ (InCycle /\ pc # "send_data" =>
          \A k \in 1..Len(cycleLog) : Len(sleeps) = cycleLog[k].attempt - 1)
    /\ (attempt = 0 => sleeps = << >>)
    /\ ((retry_delay = DefaultRetryDelay /\ max_retries = DefaultMaxRetries
          /\ attempt = DefaultMaxRetries /\ InCycle) => sleeps = <<1, 2, 4>>)

\* the third retry of a default client has posted after sleeping 1, 2 and 4
C27_Witness ==
  /\ InCycle /\ attempt = 3 /\ Len(cycleLog) > 0
  /\ retry_delay = DefaultRetryDelay /\ max_retries = DefaultMaxRetries
  /\ sleeps = <<1, 2, 4>>


\* ---------------------------------------------------------------- C28
\* record i was accepted by an individual POST of the current send cycle
AcceptedIndividually(i) ==
  \E k \in IndividualPosts :
    cycleLog[k].payload = <<customers[i]>> /\ Is2xx(cycleLog[k].resp)

\* C28: delivery keeps no record of individual successes: the individual
\* posting of every send cycle, the first and every retry, starts again at
\* the first record, and every aggregate POST carries all records of the
\* batch, the individually accepted ones included.
C28_NoMemoryOfIndividualSuccess ==
  (op = "sync_customer_data" /\ Len(cycleLog) > 0) =>
    /\ cycleLog[1].kind = "individual"
    /\ cycleLog[1].payload = <<customers[1]>>
    /\ \A k \in 1..Len(cycleLog) :
         cycleLog[k].kind = "aggregate" => cycleLog[k].payload = customers

\* a retry cycle posted record 1 again, had it accepted, failed on record 2
\* and then sent the aggregate with record 1 in it once more
C28_Witness ==
  /\ op = "sync_customer_data" /\ attempt > 0 /\ Len(customers) = 2
  /\ Len(cycleLog) = 3
  /\ AcceptedIndividually(1) /\ ~AcceptedIndividually(2)
  /\ cycleLog[3].kind = "aggregate"
  /\ \E j \in 1..Len(cycleLog[3].payload) : cycleLog[3].payload[j] = customers[1]


\* ---------------------------------------------------------------- C30
\* a (success, error) pair: success exactly when the error is absent, and a
\* failure with a non-empty error text
Consistent(o) ==
  /\ o.success <=> ~o.error.some
  /\ ~o.success => o.error.text # ""

\* C30: every (success, error) outcome returned by sync_customer_data, by a
\* send cycle and by each individual or aggregate POST is consistent:
\* success is true exactly when the error is absent, and every failure
\* carries a non-empty error text.
C30_OutcomesConsistent ==
  op = "sync_customer_data" =>
    /\ (result.set => Consistent(result))
    /\ (CycleReturned => Consistent(cycleRet))
    /\ \A k \in 1..Len(cycleLog) : Consistent(PostOutcome(cycleLog[k].resp))

====
